---- MODULE Spec2Model ----
(***************************************************************************)
(* A model of mexce (src/mexce.h): the evaluator facade (bind, unbind,     *)
(* assign_expression, evaluate, destruction), the lexer and shunting-yard  *)
(* parser, name resolution, the peephole optimizers, constant folding and  *)
(* the code emitter, for the 64-bit Linux build (MEXCE_64, __linux__).     *)
(*                                                                         *)
(* Texts are sequences of one-character strings.  A double is modelled as  *)
(* an exact rational [k |-> "q", n, d] or, where the x87 template has no   *)
(* rational meaning, as a symbolic term [k |-> "t", f, a].  Machine code   *)
(* is modelled as the sequence of emitted pieces (loads, catalog           *)
(* templates, synthesized memory-operand and power-chain instructions),    *)
(* each with its byte size and the absolute address it embeds.             *)
(***************************************************************************)
EXTENDS Integers, Sequences, FiniteSets, TLC

(***************************************************************************)
(* Bounds of the model.                                                    *)
(***************************************************************************)
\* mmap is never undone by the evaluator, so the number of pages ever
\* mapped by one evaluator is capped in the guards.
MaxPages == 3

\* The longest argument list of the calls given to the parser.
MaxArgs == 3

\* The longest text of brackets given to the parser.
MaxBracketChars == 3

\* The most binary operators in a text given to the parser.
MaxOperators == 3

\* The most binary operators in a text with signed operands.
MaxSignedOperators == 2

\* The longest text of literal characters given to the parser.
MaxLiteralChars == 4

\* The most spaces inserted into a text given to the parser.
MaxSpaces == 2

\* The calls of max nested in one another in the texts given.
MaxNesting == 8

\* The executable mappings made while the compilations are followed.
MaxEmitPages == 5

(***************************************************************************)
(* enum Token_type (the numeric values matter: stage 2 compares them).     *)
(***************************************************************************)
UNDEFINED_TOKEN_TYPE == 0
NUMERIC_LITERAL == 1
CONSTANT_NAME == 2
VARIABLE_NAME == 3
FUNCTION_NAME == 4
INFIX_1 == 5
INFIX_2 == 6
INFIX_3 == 7
INFIX_4 == 8
RIGHT_PARENTHESIS == 9
LEFT_PARENTHESIS == 10
COMMA == 11
FUNCTION_RIGHT_PARENTHESIS == 12
FUNCTION_LEFT_PARENTHESIS == 13
UNARY == 14

\* enum Element_type and enum Numeric_data_type are kept as their names.
Element_type == {"CCONST", "CVAR", "CFUNC"}
Numeric_data_type == {"M16INT", "M32INT", "M64INT", "M32FP", "M64FP"}

(***************************************************************************)
(* Character classes.                                                      *)
(***************************************************************************)
Digits == <<"0", "1", "2", "3", "4", "5", "6", "7", "8", "9">>

is_operator(c) == c \in {"+", "-", "*", "/", "^", "<"}

is_alphabetic(c) ==
    c \in {"A","B","C","D","E","F","G","H","I","J","K","L","M","N","O","P","Q",
           "R","S","T","U","V","W","X","Y","Z",
           "a","b","c","d","e","f","g","h","i","j","k","l","m","n","o","p","q",
           "r","s","t","u","v","w","x","y","z","_"}

is_numeric(c) == \E i \in 1..10 : Digits[i] = c

get_infix_rank(c) ==
    CASE c = "<" -> INFIX_4
      [] c \in {"+", "-"} -> INFIX_3
      [] c \in {"*", "/"} -> INFIX_2
      [] c = "^" -> INFIX_1

operator_to_function_name(op) ==
    CASE op = "+" -> "add"
      [] op = "-" -> "sub"
      [] op = "*" -> "mul"
      [] op = "/" -> "div"
      [] op = "^" -> "pow"
      [] op = "<" -> "less_than"

\* std::string built from characters (temp.content += e[i]).
RECURSIVE Str(_)
Str(cs) == IF cs = <<>> THEN "" ELSE Str(SubSeq(cs, 1, Len(cs) - 1)) \o cs[Len(cs)]

(***************************************************************************)
(* Doubles.                                                                *)
(***************************************************************************)
Abs(i) == IF i < 0 THEN -i ELSE i

RECURSIVE Gcd(_, _)
Gcd(a, b) == IF b = 0 THEN a ELSE Gcd(b, a % b)

\* The rational n/d (d # 0) in lowest terms with a positive denominator.
Q(n, d) ==
    LET g == Gcd(Abs(n), Abs(d))
        s == IF d < 0 THEN -1 ELSE 1
    IN  [k |-> "q", n |-> (s * n) \div g, d |-> (s * d) \div g]

Int2Q(i) == [k |-> "q", n |-> i, d |-> 1]
Zero == Int2Q(0)
One == Int2Q(1)

\* A value with no rational meaning in the model: the template `f` applied
\* to the operands `a` (left operand first).
Term(f, a) == [k |-> "t", f |-> f, a |-> a]

IsQ(v) == v.k = "q"
IsIntQ(v) == IsQ(v) /\ v.d = 1

QLess(a, b) == a.n * b.d < b.n * a.d

DigitValue(c) == (CHOOSE i \in 1..10 : Digits[i] = c) - 1

RECURSIVE Pow10(_)
Pow10(k) == IF k = 0 THEN 1 ELSE 10 * Pow10(k - 1)

\* atof on the text of a numeric literal, as stage 1 lets it through:
\* digits and at most one dot; the digits before and after the dot are read
\* as a decimal number, a text with no digit reads as 0.
RECURSIVE AtofAcc(_, _, _, _)
AtofAcc(cs, num, scale, seenDot) ==
    IF cs = <<>> THEN Q(num, scale)
    ELSE IF Head(cs) = "." THEN AtofAcc(Tail(cs), num, scale, TRUE)
    ELSE AtofAcc(Tail(cs), 10 * num + DigitValue(Head(cs)),
                 IF seenDot THEN 10 * scale ELSE scale, seenDot)

atof(cs) == AtofAcc(cs, 0, 1, FALSE)

RECURSIVE IntPow(_, _)
IntPow(b, n) == IF n = 0 THEN 1 ELSE b * IntPow(b, n - 1)

\* b^n for a rational b and an integer n, by repeated multiplication and a
\* final inversion for a negative n (fmul chain, fld1/fdivrp).
QPow(b, n) ==
    IF n >= 0 THEN Q(IntPow(b.n, n), IntPow(b.d, n))
    ELSE IF b.n = 0 THEN Term("div", <<One, Zero>>)
    ELSE Q(IntPow(b.d, -n), IntPow(b.n, -n))

(***************************************************************************)
(* The operation catalog: Function(name, num_args, stack_req, size, code,  *)
(* optimizer).  `code` is kept as the name of the template; code_size is   *)
(* sizeof(code) of the byte array in the source.                           *)
(***************************************************************************)
CatalogEntry(name, num_args, stack_req, code_size, optimizer) ==
    [name |-> name, num_args |-> num_args, stack_req |-> stack_req,
     code_size |-> code_size, optimizer |-> optimizer]

\* std::map<std::string, Function>: the entries keyed by their names.
MapByName(f) ==
    [n \in {f[i].name : i \in 1..Len(f)} |->
        CHOOSE c \in {f[i] : i \in 1..Len(f)} : c.name = n]

make_function_map ==
    MapByName(<< CatalogEntry("sin", 1, 0, 2, "none"),
                CatalogEntry("cos", 1, 0, 2, "none"),
                CatalogEntry("tan", 1, 1, 4, "none"),
                CatalogEntry("abs", 1, 0, 2, "none"),
                CatalogEntry("sign", 1, 1, 16, "none"),
                CatalogEntry("signp", 1, 2, 12, "none"),
                CatalogEntry("expn", 1, 1, 4, "none"),
                CatalogEntry("sfc", 1, 1, 4, "none"),
                CatalogEntry("sqrt", 1, 0, 2, "none"),
                CatalogEntry("pow", 2, 1, 105, "pow_optimizer"),
                CatalogEntry("exp", 1, 1, 18, "none"),
                CatalogEntry("less_than", 2, 0, 12, "none"),
                CatalogEntry("log", 1, 1, 10, "none"),
                CatalogEntry("log2", 1, 0, 6, "none"),
                CatalogEntry("ln", 1, 1, 10, "none"),
                CatalogEntry("log10", 1, 1, 10, "none"),
                CatalogEntry("ylog2", 2, 0, 2, "none"),
                CatalogEntry("max", 2, 0, 6, "none"),
                CatalogEntry("min", 2, 0, 8, "none"),
                CatalogEntry("floor", 1, 0, 21, "none"),
                CatalogEntry("ceil", 1, 0, 21, "none"),
                CatalogEntry("round", 1, 0, 21, "none"),
                CatalogEntry("int", 1, 0, 2, "none"),
                CatalogEntry("mod", 2, 0, 6, "none"),
                CatalogEntry("bnd", 2, 2, 18, "none"),
                CatalogEntry("add", 2, 0, 2, "asmd_optimizer"),
                CatalogEntry("sub", 2, 0, 2, "asmd_optimizer"),
                CatalogEntry("neg", 1, 0, 2, "none"),
                CatalogEntry("mul", 2, 0, 2, "asmd_optimizer"),
                CatalogEntry("div", 2, 0, 2, "asmd_optimizer"),
                CatalogEntry("bias", 2, 1, 18, "none"),
                CatalogEntry("gain", 2, 1, 50, "none") >>)

function_map == make_function_map

FunctionNames == DOMAIN function_map

\* The template arguments <OP0, OP1> of asmd_optimizer for each operation
\* (0x00; 0x20, 0x28; 0x08; 0x30, 0x38).
asmd_opcodes ==
    [n \in {"add", "sub", "mul", "div"} |->
        CASE n = "add" -> <<0, 0>>
          [] n = "sub" -> <<32, 40>>
          [] n = "mul" -> <<8, 8>>
          [] n = "div" -> <<48, 56>>]

\* What a catalog template leaves in st(0), given its operands (the operand
\* pushed first is a[1]).
CatalogApply(name, a) ==
    LET allq == \A i \in 1..Len(a) : IsQ(a[i])
    IN  CASE name = "add" /\ allq -> Q(a[1].n * a[2].d + a[2].n * a[1].d, a[1].d * a[2].d)
          [] name = "sub" /\ allq -> Q(a[1].n * a[2].d - a[2].n * a[1].d, a[1].d * a[2].d)
          [] name = "mul" /\ allq -> Q(a[1].n * a[2].n, a[1].d * a[2].d)
          [] name = "div" /\ allq /\ a[2].n # 0 -> Q(a[1].n * a[2].d, a[1].d * a[2].n)
          [] name = "neg" /\ allq -> Q(-a[1].n, a[1].d)
          [] name = "abs" /\ allq -> Q(Abs(a[1].n), a[1].d)
          [] name = "max" /\ allq -> IF QLess(a[2], a[1]) THEN a[1] ELSE a[2]
          [] name = "min" /\ allq -> IF QLess(a[2], a[1]) THEN a[2] ELSE a[1]
          [] name = "less_than" /\ allq -> IF QLess(a[2], a[1]) THEN Zero ELSE One
          [] name = "pow" /\ allq /\ IsIntQ(a[2]) /\ Abs(a[2].n) <= 32 -> QPow(a[1], a[2].n)
          [] OTHER -> Term(name, a)

(***************************************************************************)
(* assign_expression, stage 1: checking expression syntax.                 *)
(***************************************************************************)
\* Token(type, position, content): priority starts as the type.
Token(type, position, c) ==
    [type |-> type, priority |-> type, position |-> position, content |-> <<c>>]

\* throw mexce_parsing_exception(message, position)
mpe(message, position) == [kind |-> "error", message |-> message, position |-> position]

\* Where the code reads or writes bdarray.back() of an empty vector the
\* behaviour is undefined.
LexUB == [kind |-> "ub"]

LexInit ==
    [kind |-> "run", state |-> 0, tokens |-> <<>>, temp |-> Token(0, 0, " "),
     bdarray |-> << <<0, 0>> >>, function_parentheses |-> 0]

Back(v) == v[Len(v)]
PopBack(v) == SubSeq(v, 1, Len(v) - 1)
SetBack(v, x) == [v EXCEPT ![Len(v)] = x]

\* A ')' read after an operand (states 2, 3 and 5): it closes a plain
\* parenthesis of the current frame if one is open, and otherwise the
\* innermost function call, which must be at its last argument.
CloseParen(s, toks, i) ==
    IF s.bdarray = <<>> THEN LexUB
    ELSE IF Back(s.bdarray)[1] > 0
    THEN [s EXCEPT !.tokens = toks \o <<Token(RIGHT_PARENTHESIS, i, ")")>>,
                   !.bdarray = SetBack(s.bdarray, <<Back(s.bdarray)[1] - 1, Back(s.bdarray)[2]>>),
                   !.state = 5]
    ELSE IF s.function_parentheses <= 0 THEN mpe("\")\" not expected", i)
    ELSE IF Back(s.bdarray)[2] # 1 THEN mpe("Expected more arguments", i)
    ELSE [s EXCEPT !.tokens = toks \o <<Token(FUNCTION_RIGHT_PARENTHESIS, i, ")")>>,
                   !.function_parentheses = s.function_parentheses - 1,
                   !.bdarray = PopBack(s.bdarray),
                   !.state = 5]

\* A ReadComma that does not count the arguments.
ReadComma_uncounted(s, toks, i) ==
    IF s.bdarray = <<>> THEN LexUB
    ELSE IF Back(s.bdarray)[1] # 0 THEN mpe("Expected a \")\"", i)
    ELSE [s EXCEPT !.tokens = toks \o <<Token(COMMA, i, ",")>>,
                   !.bdarray = SetBack(s.bdarray, <<Back(s.bdarray)[1], Back(s.bdarray)[2] - 1>>),
                   !.state = 0]

\* A ',' read after an operand (states 2, 3 and 5).
ReadComma(s, toks, i) ==
    IF s.bdarray = <<>> THEN LexUB
    ELSE IF Back(s.bdarray)[1] # 0 THEN mpe("Expected a \")\"", i)
    ELSE IF Back(s.bdarray)[2] < 2 THEN mpe("Don't expect any arguments here", i)
    ELSE [s EXCEPT !.tokens = toks \o <<Token(COMMA, i, ",")>>,
                   !.bdarray = SetBack(s.bdarray, <<Back(s.bdarray)[1], Back(s.bdarray)[2] - 1>>),
                   !.state = 0]

\* A function name followed by its opening parenthesis (or a space).
OpenCall(s, i, next_state) ==
    [s EXCEPT !.tokens = s.tokens \o << [s.temp EXCEPT !.type = FUNCTION_NAME],
                                        Token(FUNCTION_LEFT_PARENTHESIS, i, "(") >>,
              !.bdarray = s.bdarray \o << <<0, function_map[Str(s.temp.content)].num_args>> >>,
              !.function_parentheses = s.function_parentheses + 1,
              !.state = next_state]

\* case 4 (and the tail of case 0): just read an infix operator.
LexCase4(s, c, i) ==
    IF c = " " THEN s
    ELSE IF is_numeric(c) THEN [s EXCEPT !.temp = Token(NUMERIC_LITERAL, i, c), !.state = 1]
    ELSE IF c = "." THEN [s EXCEPT !.temp = Token(NUMERIC_LITERAL, i, c), !.state = 2]
    ELSE IF is_alphabetic(c) THEN [s EXCEPT !.temp = Token(0, i, c), !.state = 3]
    ELSE IF c \in {"-", "+"}
    THEN [s EXCEPT !.tokens = s.tokens \o <<Token(UNARY, i, c)>>, !.state = 4]
    ELSE IF c = "("
    THEN IF s.bdarray = <<>> THEN LexUB
         ELSE [s EXCEPT !.tokens = s.tokens \o <<Token(LEFT_PARENTHESIS, i, "(")>>,
                        !.bdarray = SetBack(s.bdarray, <<Back(s.bdarray)[1] + 1, Back(s.bdarray)[2]>>),
                        !.state = 0]
    ELSE mpe("\"" \o c \o "\" not expected", i)

\* case 0: start of expression.
LexCase0(s, c, i) ==
    IF c \in {"-", "+"}
    THEN [s EXCEPT !.tokens = s.tokens \o <<Token(UNARY, i, c)>>, !.state = 4]
    ELSE IF c = ")"
    THEN IF s.bdarray = <<>> THEN LexUB
         ELSE IF Back(s.bdarray)[1] # 0 THEN mpe("Expected an expression", i)
         ELSE IF Back(s.bdarray)[2] # 0 THEN mpe("Expected more arguments", i)
         ELSE [s EXCEPT !.tokens = s.tokens \o <<Token(FUNCTION_RIGHT_PARENTHESIS, i, ")")>>,
                        !.function_parentheses = s.function_parentheses - 1,
                        !.bdarray = PopBack(s.bdarray),
                        !.state = 5]
    ELSE LexCase4(s, c, i)

\* case 2 (and the tail of case 1): reading a numeric literal, found dot.
LexCase2(s, c, i) ==
    IF is_numeric(c) THEN [s EXCEPT !.temp.content = s.temp.content \o <<c>>]
    ELSE IF c = " " THEN [s EXCEPT !.tokens = s.tokens \o <<s.temp>>, !.state = 5]
    ELSE IF c = ")" THEN CloseParen(s, s.tokens \o <<s.temp>>, i)
    ELSE IF is_operator(c)
    THEN [s EXCEPT !.tokens = s.tokens \o <<s.temp, Token(get_infix_rank(c), i, c)>>,
                   !.state = 4]
    ELSE IF c = "," THEN ReadComma(s, s.tokens \o <<s.temp>>, i)
    ELSE mpe("\"" \o c \o "\" not expected", i)

\* case 1: currently reading a numeric literal.
LexCase1(s, c, i) ==
    IF c = "." THEN [s EXCEPT !.temp.content = s.temp.content \o <<c>>, !.state = 2]
    ELSE LexCase2(s, c, i)

\* The type of an identifier that is not followed by '(' or ' ': a bound
\* variable first, then a named constant; 0 stands for the throw.
OperandType(name, variables, constants) ==
    IF name \in variables THEN VARIABLE_NAME
    ELSE IF name \in constants THEN CONSTANT_NAME
    ELSE UNDEFINED_TOKEN_TYPE

\* case 3: currently reading alphanumeric.  `variables` and `constants` are
\* the key sets of m_variables and m_constants.
LexCase3(s, c, i, variables, constants) ==
    LET name == Str(s.temp.content)
        ty == OperandType(name, variables, constants)
        operand == [s.temp EXCEPT !.type = ty]
        unknown == mpe(name \o " is not a known constant or variable name", i)
    IN  IF is_alphabetic(c) \/ is_numeric(c)
        THEN [s EXCEPT !.temp.content = s.temp.content \o <<c>>]
        ELSE IF c = " "
        THEN IF ty # UNDEFINED_TOKEN_TYPE
             THEN [s EXCEPT !.tokens = s.tokens \o <<operand>>, !.state = 5]
             ELSE IF name \in FunctionNames THEN OpenCall(s, i, 6)
             ELSE mpe(name \o " is not a known constant, variable or function name", i)
        ELSE IF c = ")"
        THEN IF ty = UNDEFINED_TOKEN_TYPE THEN unknown
             ELSE CloseParen(s, s.tokens \o <<operand>>, i)
        ELSE IF c = "("
        THEN IF name \notin FunctionNames
             THEN mpe(name \o " is not a known function name", i)
             ELSE OpenCall(s, i, 0)
        ELSE IF is_operator(c)
        THEN IF ty = UNDEFINED_TOKEN_TYPE THEN unknown
             ELSE [s EXCEPT !.tokens = s.tokens \o <<operand, Token(get_infix_rank(c), i, c)>>,
                            !.state = 4]
        ELSE IF c = ","
        THEN IF ty = UNDEFINED_TOKEN_TYPE THEN unknown
             ELSE ReadComma(s, s.tokens \o <<operand>>, i)
        ELSE mpe("\"" \o c \o "\" not expected", i)

\* case 5: just read an expression (constant/variable/right parenthesis).
LexCase5(s, c, i) ==
    IF c = " " THEN s
    ELSE IF is_operator(c)
    THEN [s EXCEPT !.tokens = s.tokens \o <<Token(get_infix_rank(c), i, c)>>, !.state = 4]
    ELSE IF c = ")" THEN CloseParen(s, s.tokens, i)
    ELSE IF c = "," THEN ReadComma(s, s.tokens, i)
    ELSE mpe("\"" \o c \o "\" not expected", i)

\* case 6: just read a function name.
LexCase6(s, c, i) ==
    IF c = "(" THEN [s EXCEPT !.state = 0] ELSE mpe("Expected a \"(\"", i)

\* One iteration of the for loop over e[i].
LexStep(s, c, i, variables, constants) ==
    CASE s.state = 0 -> LexCase0(s, c, i)
      [] s.state = 4 -> LexCase4(s, c, i)
      [] s.state = 1 -> LexCase1(s, c, i)
      [] s.state = 2 -> LexCase2(s, c, i)
      [] s.state = 3 -> LexCase3(s, c, i, variables, constants)
      [] s.state = 5 -> LexCase5(s, c, i)
      [] s.state = 6 -> LexCase6(s, c, i)

\* The loop over e (0-based i; e already ends with the appended ' ').
RECURSIVE LexLoop(_, _, _, _, _)
LexLoop(s, e, i, variables, constants) ==
    IF s.kind # "run" \/ i >= Len(e) THEN s
    ELSE LexLoop(LexStep(s, e[i + 1], i, variables, constants), e, i + 1, variables, constants)

\* Stage 1 of assign_expression on a non-empty text: the token deque, or
\* the exception thrown, or undefined behaviour.
\* The checks after the loop, on the lexer state `s` the loop ended in;
\* `i` is the index the loop stopped at, i-1 the position reported.
Stage1End(s, i) ==
    IF s.kind # "run" THEN s
    ELSE IF s.bdarray = <<>> THEN LexUB
    ELSE IF Back(s.bdarray)[1] > 0 \/ s.function_parentheses > 0
    THEN mpe("Expected a \")\"", i - 1)
    ELSE IF s.state # 5 THEN mpe("Unexpected end of expression", i - 1)
    ELSE [kind |-> "ok", tokens |-> s.tokens]

Stage1(text, variables, constants) ==
    Stage1End(LexLoop(LexInit, text \o <<" ">>, 0, variables, constants), Len(text) + 1)

(***************************************************************************)
(* assign_expression, stage 2: transform expression to postfix.            *)
(***************************************************************************)
\* A PopHigher that stops at an operator of the same priority.
RECURSIVE PopHigher_strict(_, _, _)
PopHigher_strict(postfix, tstack, ty) ==
    IF tstack = <<>> THEN [postfix |-> postfix, tstack |-> tstack]
    ELSE IF Back(tstack).priority < INFIX_1 \/ Back(tstack).priority >= ty
    THEN [postfix |-> postfix, tstack |-> tstack]
    ELSE PopHigher_strict(postfix \o <<Back(tstack)>>, PopBack(tstack), ty)

\* while (!tstack.empty()) { sp = tstack.back().priority;
\*     if (sp < INFIX_1 || sp > temp.type) break; move tstack.back() to postfix }
RECURSIVE PopHigher(_, _, _)
PopHigher(postfix, tstack, ty) ==
    IF tstack = <<>> THEN [postfix |-> postfix, tstack |-> tstack]
    ELSE IF Back(tstack).priority < INFIX_1 \/ Back(tstack).priority > ty
    THEN [postfix |-> postfix, tstack |-> tstack]
    ELSE PopHigher(postfix \o <<Back(tstack)>>, PopBack(tstack), ty)

\* while (tstack.back().type != stop) move tstack.back() to postfix;
\* reading back() of an empty tstack is undefined behaviour.
RECURSIVE PopUntil(_, _, _)
PopUntil(postfix, tstack, stop) ==
    IF tstack = <<>> THEN [kind |-> "ub"]
    ELSE IF Back(tstack).type = stop
    THEN [kind |-> "run", postfix |-> postfix, tstack |-> tstack]
    ELSE PopUntil(postfix \o <<Back(tstack)>>, PopBack(tstack), stop)

\* do { move tstack.back() to postfix } while (postfix.back().type != FUNCTION_NAME)
RECURSIVE PopThrough(_, _)
PopThrough(postfix, tstack) ==
    IF tstack = <<>> THEN [kind |-> "ub"]
    ELSE IF Back(tstack).type = FUNCTION_NAME
    THEN [kind |-> "run", postfix |-> postfix \o <<Back(tstack)>>, tstack |-> PopBack(tstack)]
    ELSE PopThrough(postfix \o <<Back(tstack)>>, PopBack(tstack))

\* A unary sign that always takes the additive priority.
UnaryPriority_additive(tstack) == INFIX_3

\* temp.priority = (!tstack.empty() && tstack.back().priority == INFIX_1) ?
\*     INFIX_1 : INFIX_3;
UnaryPriority(tstack) ==
    IF tstack # <<>> /\ Back(tstack).priority = INFIX_1 THEN INFIX_1 ELSE INFIX_3

\* One iteration of the while loop over the token deque.
Stage2Step(postfix, tstack, temp) ==
    CASE temp.type \in {INFIX_4, INFIX_3, INFIX_2} ->
            LET r == PopHigher(postfix, tstack, temp.type)
            IN  [kind |-> "run", postfix |-> r.postfix, tstack |-> r.tstack \o <<temp>>]
      [] temp.type \in {INFIX_1, LEFT_PARENTHESIS, FUNCTION_NAME} ->
            [kind |-> "run", postfix |-> postfix, tstack |-> tstack \o <<temp>>]
      [] temp.type = UNARY ->
            [kind |-> "run", postfix |-> postfix,
             tstack |-> tstack \o <<[temp EXCEPT !.priority = UnaryPriority(tstack)]>>]
      [] temp.type \in {NUMERIC_LITERAL, CONSTANT_NAME, VARIABLE_NAME} ->
            [kind |-> "run", postfix |-> postfix \o <<temp>>, tstack |-> tstack]
      [] temp.type = RIGHT_PARENTHESIS ->
            LET r == PopUntil(postfix, tstack, LEFT_PARENTHESIS)
            IN  IF r.kind = "ub" THEN r
                ELSE [kind |-> "run", postfix |-> r.postfix \o <<Back(r.tstack)>>,
                      tstack |-> PopBack(r.tstack)]
      [] temp.type = FUNCTION_RIGHT_PARENTHESIS -> PopThrough(postfix, tstack)
      [] temp.type = COMMA -> PopUntil(postfix, tstack, FUNCTION_NAME)
      [] temp.type = FUNCTION_LEFT_PARENTHESIS ->
            [kind |-> "run", postfix |-> postfix, tstack |-> tstack]
      [] OTHER -> mpe("internal error", 0)

RECURSIVE Stage2Loop(_, _, _)
Stage2Loop(tokens, postfix, tstack) ==
    IF tokens = <<>>
    THEN [kind |-> "ok", postfix |-> postfix \o [i \in 1..Len(tstack) |-> tstack[Len(tstack) + 1 - i]]]
    ELSE LET r == Stage2Step(postfix, tstack, Head(tokens))
         IN  IF r.kind # "run" THEN r ELSE Stage2Loop(Tail(tokens), r.postfix, r.tstack)

Stage2(tokens) == Stage2Loop(tokens, <<>>, <<>>)

(***************************************************************************)
(* assign_expression, stage 3: convert Token primitives to Elements.       *)
(* An Element carries `id`, the identity of its node in the std::list      *)
(* (elist_it_t is a node iterator, stable under erase of other nodes).     *)
(***************************************************************************)
\* Addresses: caller storage, the Constant objects owned by m_constants,
\* m_literals and m_intermediate_constants, and the scratch slot.
VarAddress(cell) == <<"var", cell>>
NamedConstantAddress(name) == <<"m_constants", name>>
LiteralAddress(text) == <<"m_literals", text>>
IntermediateAddress(k) == <<"m_intermediate_constants", ToString(k)>>
ReturnVarAddress == <<"m_x64_return_var", "">>

\* struct Value (Constant and Variable) as a list element.
ValueElement(id, element_type, address, ndt, name) ==
    [id |-> id, element_type |-> element_type, address |-> address,
     numeric_data_type |-> ndt, name |-> name]

\* struct Function as a list element.
FunctionElement(id, name, num_args, stack_req, code_size, code, optimizer, var_ref, args) ==
    [id |-> id, element_type |-> "CFUNC", name |-> name, num_args |-> num_args,
     stack_req |-> stack_req, code_size |-> code_size, code |-> code,
     optimizer |-> optimizer, var_ref |-> var_ref, args |-> args]

\* make_function(name): a copy of the catalog entry.
CopyOfEntry(id, c) ==
    FunctionElement(id, c.name, c.num_args, c.stack_req, c.code_size,
                    [t |-> "catalog", name |-> c.name], c.optimizer, FALSE, <<>>)

make_function(id, name) == CopyOfEntry(id, function_map[name])

\* The element a postfix token becomes; <<>> for the tokens stage 3 drops
\* (unary '+', and the LEFT_PARENTHESIS tokens stage 2 moves to postfix).
Stage3Element(temp, id, variables) ==
    CASE temp.type \in {INFIX_4, INFIX_3, INFIX_2, INFIX_1} ->
            <<make_function(id, operator_to_function_name(temp.content[1]))>>
      [] temp.type = FUNCTION_NAME -> <<make_function(id, Str(temp.content))>>
      [] temp.type = UNARY ->
            IF temp.content = <<"-">> THEN <<make_function(id, "neg")>> ELSE <<>>
      [] temp.type = NUMERIC_LITERAL ->
            <<ValueElement(id, "CCONST", LiteralAddress(Str(temp.content)), "M64FP",
                           Str(temp.content))>>
      [] temp.type = CONSTANT_NAME ->
            <<ValueElement(id, "CCONST", NamedConstantAddress(Str(temp.content)), "M64FP",
                           Str(temp.content))>>
      [] temp.type = VARIABLE_NAME ->
            <<ValueElement(id, "CVAR", variables[Str(temp.content)].address,
                           variables[Str(temp.content)].numeric_data_type,
                           Str(temp.content))>>
      [] OTHER -> <<>>

\* The while loop over the postfix deque: the element list, the literals
\* created in m_literals and the variables whose `referenced` is set.
RECURSIVE Stage3Loop(_, _, _, _, _)
Stage3Loop(postfix, elist, literals, referenced, variables) ==
    IF postfix = <<>>
    THEN [elist |-> elist, literals |-> literals, referenced |-> referenced]
    ELSE LET temp == Head(postfix)
             name == Str(temp.content)
             el == Stage3Element(temp, Len(elist) + 1, variables)
         IN  Stage3Loop(Tail(postfix), elist \o el,
                 IF temp.type = NUMERIC_LITERAL /\ name \notin DOMAIN literals
                 THEN [t \in DOMAIN literals \cup {name} |->
                          IF t = name THEN atof(temp.content) ELSE literals[t]]
                 ELSE literals,
                 IF temp.type = VARIABLE_NAME THEN referenced \cup {name} ELSE referenced,
                 variables)

Stage3(postfix, variables) == Stage3Loop(postfix, <<>>, <<>>, {}, variables)

(***************************************************************************)
(* assign_expression: link functions to their arguments.                   *)
(***************************************************************************)
\* for (i < fp->num_args) { fp->args[i] = evec.back(); evec.pop_back(); }
\* evec.back() of an empty vector is undefined behaviour.
\* A linking loop that reads evec.back() for each argument and leaves out
\* evec.pop_back().
RECURSIVE LinkLoop_no_pop(_, _, _)
LinkLoop_no_pop(elist, y, evec) ==
    IF y > Len(elist) THEN [kind |-> "ok", elist |-> elist, evec |-> evec]
    ELSE IF elist[y].element_type = "CFUNC"
    THEN IF Len(evec) = 0 THEN [kind |-> "ub"]
         ELSE LinkLoop_no_pop([elist EXCEPT ![y].args =
                                    [i \in 1..elist[y].num_args |-> Back(evec)]],
                              y + 1, evec \o <<elist[y].id>>)
    ELSE LinkLoop_no_pop(elist, y + 1, evec \o <<elist[y].id>>)

RECURSIVE LinkLoop(_, _, _)
LinkLoop(elist, y, evec) ==
    IF y > Len(elist) THEN [kind |-> "ok", elist |-> elist, evec |-> evec]
    ELSE IF elist[y].element_type = "CFUNC"
    THEN IF Len(evec) < elist[y].num_args THEN [kind |-> "ub"]
         ELSE LET n == elist[y].num_args
                  args == [i \in 1..n |-> evec[Len(evec) + 1 - i]]
              IN  LinkLoop([elist EXCEPT ![y].args = args], y + 1,
                           SubSeq(evec, 1, Len(evec) - n) \o <<elist[y].id>>)
    ELSE LinkLoop(elist, y + 1, evec \o <<elist[y].id>>)

Link(elist) == LinkLoop(elist, 1, <<>>)

(***************************************************************************)
(* Memory as the generated code and get_data_as_double see it.             *)
(***************************************************************************)
\* m_constants, set by the constructor: atof of the decimal expansions of
\* pi and e, kept as symbols (neither is an integer).
NamedConstants == [n \in {"pi", "e"} |-> Term(n, <<>>)]

\* The value stored at every address the code can embed: caller storage
\* `mem`, the named constants, the live literals `lits` and intermediate
\* constants `ics`, and `stale`, the storage of Constant objects that were
\* destroyed while code embedding their address stayed installed.
Heap(lits, ics, mem, stale) ==
    LET live == {VarAddress(c) : c \in DOMAIN mem}
                \cup {NamedConstantAddress(n) : n \in DOMAIN NamedConstants}
                \cup {LiteralAddress(t) : t \in DOMAIN lits}
                \cup {IntermediateAddress(k) : k \in 1..Len(ics)}
    IN  [a \in live \cup DOMAIN stale |->
            IF a \notin live THEN stale[a]
            ELSE CASE a[1] = "var" -> mem[a[2]]
                   [] a[1] = "m_constants" -> NamedConstants[a[2]]
                   [] a[1] = "m_literals" -> lits[a[2]]
                   [] a[1] = "m_intermediate_constants" ->
                        ics[CHOOSE k \in 1..Len(ics) : IntermediateAddress(k) = a]]

(***************************************************************************)
(* The peephole optimizers.                                                *)
(***************************************************************************)
\* *it for a list iterator `id`.
Deref(elist, id) == elist[CHOOSE i \in 1..Len(elist) : elist[i].id = id]

\* elist->erase(it)
Erase(elist, id) == SelectSeq(elist, LAMBDA el : el.id # id)

\* The exponents pow_optimizer has a multiply chain for, with the byte size
\* of the chain.
PowChainSize ==
    [n \in {0, 1, 2, 3, 4, 5, 6, 7, 8, 16, 32} |->
        CASE n = 0 -> 4 [] n = 1 -> 0 [] n = 2 -> 2 [] n = 3 -> 6 [] n = 4 -> 4
          [] n = 5 -> 8 [] n = 6 -> 10 [] n = 7 -> 12 [] n = 8 -> 6
          [] n = 16 -> 8 [] n = 32 -> 10]

\* A pow_optimizer that has an (empty) chain for every integer exponent up
\* to 32.
pow_optimizer_any_integer(f, elist, heap) ==
    IF Deref(elist, f.args[1]).element_type = "CCONST"
       /\ IsIntQ(heap[Deref(elist, f.args[1]).address])
       /\ Abs(heap[Deref(elist, f.args[1]).address].n) <= 32
    THEN [f |-> FunctionElement(f.id, "", 1, 0, 0,
                                [t |-> "powchain", n |-> heap[Deref(elist, f.args[1]).address].n],
                                "none", FALSE, <<f.args[2]>>),
          elist |-> Erase(elist, f.args[1])]
    ELSE [f |-> f, elist |-> elist]

\* pow_optimizer(f, ev, elist): the replacement function and the list.
pow_optimizer(f, elist, heap) ==
    LET exponent == Deref(elist, f.args[1])
        v_d == heap[exponent.address]
    IN  IF exponent.element_type = "CCONST" /\ IsIntQ(v_d) /\ Abs(v_d.n) <= 32
           /\ v_d.n \in DOMAIN PowChainSize
        THEN [f |-> FunctionElement(f.id, "", 1, 0, PowChainSize[v_d.n],
                                    [t |-> "powchain", n |-> v_d.n], "none", FALSE,
                                    <<f.args[2]>>),
              elist |-> Erase(elist, f.args[1])]
        ELSE [f |-> f, elist |-> elist]

\* The bytes asmd_optimizer appends after `mov rax, address`: the arithmetic
\* instruction on [rax] for the operand's type; the switch has no case for
\* M64INT, for which nothing is appended.
MemOperandSize(ndt) == IF ndt \in {"M16INT", "M32INT", "M32FP", "M64FP"} THEN 2 ELSE 0

\* An asmd_optimizer whose synthesized function keeps the num_args of the
\* function it replaces.
asmd_optimizer_two_args(f, elist) ==
    LET leaf(i) == Deref(elist, f.args[i]).element_type \in {"CCONST", "CVAR"}
        fold(i) ==
            LET v == Deref(elist, f.args[i])
                opcode == asmd_opcodes[f.name][i]
            IN  [f |-> FunctionElement(f.id, "", f.num_args, 0,
                           10 + MemOperandSize(v.numeric_data_type),
                           [t |-> "memop", opcode |-> opcode, address |-> v.address,
                            numeric_data_type |-> v.numeric_data_type],
                           "none", v.element_type = "CVAR",
                           <<f.args[IF i = 1 THEN 2 ELSE 1]>>),
                 elist |-> Erase(elist, f.args[i])]
    IN  IF leaf(1) THEN fold(1)
        ELSE IF leaf(2) THEN fold(2)
        ELSE [f |-> f, elist |-> elist]

\* asmd_optimizer<OP0, OP1>(f, ev, elist), for the first i in 0..1 whose
\* argument is a CCONST or a CVAR.
asmd_optimizer(f, elist) ==
    LET leaf(i) == Deref(elist, f.args[i]).element_type \in {"CCONST", "CVAR"}
        fold(i) ==
            LET v == Deref(elist, f.args[i])
                opcode == asmd_opcodes[f.name][i]
            IN  [f |-> FunctionElement(f.id, "", 1, 0, 10 + MemOperandSize(v.numeric_data_type),
                           [t |-> "memop", opcode |-> opcode, address |-> v.address,
                            numeric_data_type |-> v.numeric_data_type],
                           "none", v.element_type = "CVAR",
                           <<f.args[IF i = 1 THEN 2 ELSE 1]>>),
                 elist |-> Erase(elist, f.args[i])]
    IN  IF leaf(1) THEN fold(1)
        ELSE IF leaf(2) THEN fold(2)
        ELSE [f |-> f, elist |-> elist]

\* "choose more suitable functions, where applicable": the loop over the
\* list; `ids` are the nodes in list order when the loop starts (a node the
\* loop has not reached yet is never erased).
RECURSIVE OptimizeLoop(_, _, _)
OptimizeLoop(elist, ids, heap) ==
    IF ids = <<>> THEN elist
    ELSE IF \A i \in 1..Len(elist) : elist[i].id # Head(ids)
    THEN OptimizeLoop(elist, Tail(ids), heap)
    ELSE LET fp == Deref(elist, Head(ids))
             r == IF fp.element_type # "CFUNC" \/ fp.optimizer = "none"
                  THEN [f |-> fp, elist |-> elist]
                  ELSE IF fp.optimizer = "pow_optimizer"
                  THEN pow_optimizer(fp, elist, heap)
                  ELSE asmd_optimizer(fp, elist)
         IN  OptimizeLoop([i \in 1..Len(r.elist) |->
                              IF r.elist[i].id = fp.id THEN r.f ELSE r.elist[i]],
                          Tail(ids), heap)

Optimize(elist, heap) == OptimizeLoop(elist, [i \in 1..Len(elist) |-> elist[i].id], heap)

(***************************************************************************)
(* compile_elist: the bytes laid down for a range of the list.             *)
(***************************************************************************)
\* `push rax`, then per node a load (mov rax, address; fld/fild [rax]) or
\* the function's code, then return_sequence with the address of
\* m_x64_return_var patched in.
CodeFor(el) ==
    IF el.element_type \in {"CVAR", "CCONST"}
    THEN [t |-> "load", address |-> el.address,
          numeric_data_type |-> el.numeric_data_type, size |-> 12]
    ELSE [t |-> "call", code |-> el.code, num_args |-> el.num_args, size |-> el.code_size]

CompileCode(range) ==
    <<[t |-> "push_rax", size |-> 1]>>
    \o [i \in 1..Len(range) |-> CodeFor(range[i])]
    \o <<[t |-> "return_sequence", address |-> ReturnVarAddress, size |-> 18]>>

\* size_t fpu_stack_size after the first k nodes of the range: ++ for a
\* CVAR or CCONST, -= num_args - 1 for a function.  The branch taken when
\* the counter exceeds 8 is empty (its throw is commented out), so the
\* counter has no effect on what compile_elist does.
RECURSIVE fpu_stack_size(_, _)
fpu_stack_size(range, k) ==
    IF k = 0 THEN 0
    ELSE IF range[k].element_type \in {"CVAR", "CCONST"}
    THEN fpu_stack_size(range, k - 1) + 1
    ELSE fpu_stack_size(range, k - 1) - (range[k].num_args - 1)

RECURSIVE SumSizes(_)
SumSizes(code) == IF code = <<>> THEN 0 ELSE Head(code).size + SumSizes(Tail(code))

\* code.size()
CodeSize(code) == SumSizes(code)

(***************************************************************************)
(* Running generated code: the x87 register stack, top last.               *)
(***************************************************************************)
\* What an x87 instruction delivers for an empty register.
Indefinite == Term("indefinite", <<>>)

\* The registers of the x87 stack (the 8 of `++fpu_stack_size > 8`).
FpuRegisters == 8

\* The arithmetic instruction of a synthesized memory-operand function:
\* /0 fadd, /1 fmul, /4 fsub, /5 fsubr, /6 fdiv, /7 fdivr on st(0) and m.
MemOperandApply(opcode, st0, m) ==
    CatalogApply(CASE opcode = 0 -> "add"
                   [] opcode = 8 -> "mul"
                   [] opcode \in {32, 40} -> "sub"
                   [] opcode \in {48, 56} -> "div",
                 IF opcode \in {40, 56} THEN <<m, st0>> ELSE <<st0, m>>)

\* The effect of one function's code on the register stack.
CallApply(c, num_args, st, heap) ==
    LET n == Len(st)
        arg(i) == IF n - num_args + i >= 1 THEN st[n - num_args + i] ELSE Indefinite
        rest == SubSeq(st, 1, n - num_args)
    IN  CASE c.t = "catalog" ->
                rest \o <<CatalogApply(c.name, [i \in 1..num_args |-> arg(i)])>>
          [] c.t = "powchain" ->
                rest \o <<IF IsQ(arg(1)) THEN QPow(arg(1), c.n)
                          ELSE Term("pow", <<arg(1), Int2Q(c.n)>>)>>
          [] c.t = "memop" ->
                rest \o <<IF MemOperandSize(c.numeric_data_type) = 0 THEN arg(1)
                          ELSE MemOperandApply(c.opcode, arg(1), heap[c.address])>>

\* fld/fild m: a push; with all eight registers in use the push is a stack
\* fault that leaves the indefinite value in the register that held the
\* oldest entry, which becomes st(0).
Fld(st, m) ==
    IF Len(st) < FpuRegisters THEN st \o <<m>> ELSE Tail(st) \o <<Indefinite>>

RECURSIVE Run(_, _, _)
Run(code, st, heap) ==
    IF code = <<>> THEN Indefinite
    ELSE LET c == Head(code)
         IN  CASE c.t = "push_rax" -> Run(Tail(code), st, heap)
               [] c.t = "load" -> Run(Tail(code), Fld(st, heap[c.address]), heap)
               [] c.t = "call" -> Run(Tail(code), CallApply(c.code, c.num_args, st, heap), heap)
               [] c.t = "return_sequence" -> IF st = <<>> THEN Indefinite ELSE Back(st)

\* The double a call of the code returns (through m_x64_return_var and xmm0).
Execute(code, heap) == Run(code, <<>>, heap)

\* The addresses the code reads operands from when it runs.
ReadAddresses(code) ==
    {code[i].address : i \in {j \in 1..Len(code) : code[j].t = "load"}}
    \cup {code[i].code.address :
            i \in {j \in 1..Len(code) :
                    /\ code[j].t = "call"
                    /\ code[j].code.t = "memop"
                    /\ MemOperandSize(code[j].code.numeric_data_type) > 0}}

\* The addresses embedded in the code as operand addresses, read or not.
EmbeddedAddresses(code) ==
    {code[i].address : i \in {j \in 1..Len(code) : code[j].t = "load"}}
    \cup {code[i].code.address :
            i \in {j \in 1..Len(code) : code[j].t = "call" /\ code[j].code.t = "memop"}}

(***************************************************************************)
(* assign_expression: precompute constant expressions.                     *)
(***************************************************************************)
\* A test of the operands that takes literals and named constants only,
\* not the constants the loop itself made.
ConstantOperands_no_intermediate(elist, y) ==
    /\ y - elist[y].num_args >= 1
    /\ \A k \in 1..elist[y].num_args :
            /\ elist[y - k].element_type = "CCONST"
            /\ elist[y - k].address[1] # "m_intermediate_constants"

\* The nodes y-dc .. y-1 exist and are all CCONST (the while (true) loop).
ConstantOperands(elist, y) ==
    /\ y - elist[y].num_args >= 1
    /\ \A k \in 1..elist[y].num_args : elist[y - k].element_type = "CCONST"

\* The for loop over the list.  Every constant function is compiled on its
\* own (one more page, published in `evaluate`), called, and replaced by a
\* new Constant kept in m_intermediate_constants.  `compiled` collects the
\* code of these sub-compilations in order.
RECURSIVE FoldLoop(_, _, _, _, _, _)
FoldLoop(elist, y, ics, compiled, lits, mem) ==
    IF y > Len(elist) THEN [elist |-> elist, ics |-> ics, compiled |-> compiled]
    ELSE IF elist[y].element_type = "CFUNC" /\ ~elist[y].var_ref /\ ConstantOperands(elist, y)
    THEN LET yt == y - elist[y].num_args
             code == CompileCode(SubSeq(elist, yt, y))
             value == Execute(code, Heap(lits, ics, mem, <<>>))
             ic == ValueElement(0, "CCONST", IntermediateAddress(Len(ics) + 1), "M64FP", "")
         IN  FoldLoop(SubSeq(elist, 1, yt - 1) \o <<ic>> \o SubSeq(elist, y + 1, Len(elist)),
                      yt + 1, ics \o <<value>>, compiled \o <<code>>, lits, mem)
    ELSE FoldLoop(elist, y + 1, ics, compiled, lits, mem)

(***************************************************************************)
(* assign_expression on a non-empty text, up to the final compile_elist:   *)
(* what is thrown, or the literals, referenced variables, intermediate     *)
(* constants, sub-compilations and the code of the whole list.             *)
(***************************************************************************)
\* After the optimizers: the precompute loop and the code of the whole list.
PipelineFold(s3, fd) ==
    [kind |-> "ok", literals |-> s3.literals, referenced |-> s3.referenced,
     ics |-> fd.ics, compiled |-> fd.compiled \o <<CompileCode(fd.elist)>>,
     elist |-> fd.elist]

\* After stage 3: linking, the optimizers, folding.
PipelineLink(s3, ln, mem) ==
    IF ln.kind # "ok" THEN ln
    ELSE PipelineFold(s3, FoldLoop(Optimize(ln.elist, Heap(s3.literals, <<>>, mem, <<>>)),
                                   1, <<>>, <<>>, s3.literals, mem))

PipelineStage3(s3, mem) == PipelineLink(s3, Link(s3.elist), mem)

\* After stage 1: stage 2 and stage 3.
PipelineStage2(s2, variables, mem) ==
    IF s2.kind # "ok" THEN s2 ELSE PipelineStage3(Stage3(s2.postfix, variables), mem)

PipelineStage1(s1, variables, mem) ==
    IF s1.kind # "ok" THEN s1 ELSE PipelineStage2(Stage2(s1.tokens), variables, mem)

Pipeline(text, variables, mem) ==
    PipelineStage1(Stage1(text, DOMAIN variables, DOMAIN NamedConstants), variables, mem)

(***************************************************************************)
(* The executable-page allocator (Linux branch).  A buffer is named by     *)
(* the index of its mapping in `pages`; 0 is the null pointer.  A mapping  *)
(* is [size, prot, mapped]; its bytes are tracked only for the buffer      *)
(* `evaluate` points to (`code`): no pointer to any other buffer is kept.  *)
(***************************************************************************)
\* mmap(0, sz, PROT_READ | PROT_WRITE, ...): a new mapping.
get_executable_buffer(pages, sz) ==
    Append(pages, [size |-> sz, prot |-> "PROT_READ|PROT_WRITE", mapped |-> TRUE])

\* A lock_executable_buffer that hands the buffer out without the mprotect.
lock_executable_buffer_unsealed(pages, buffer, denied) ==
    [pages |-> pages, fn |-> IF denied THEN 0 ELSE buffer]

\* mprotect(buffer, sz, PROT_EXEC); `denied` when mprotect returns nonzero,
\* and then the function returns the null pointer.
lock_executable_buffer(pages, buffer, denied) ==
    IF denied THEN [pages |-> pages, fn |-> 0]
    ELSE [pages |-> [pages EXCEPT ![buffer].prot = "PROT_EXEC"], fn |-> buffer]

\* munmap(buffer, sz) unless buffer is null.  munmap of length 0 fails
\* (EINVAL) and unmaps nothing; every code size of the model is below one
\* host page, so any other length unmaps the whole mapping.
free_executable_buffer(pages, buffer, sz) ==
    IF buffer = 0 THEN pages
    ELSE IF sz = 0 THEN pages
    ELSE [pages EXCEPT ![buffer].mapped = FALSE]

(***************************************************************************)
(* The evaluator's operations as functions of its state `st`:              *)
(* [m_variables, m_literals, m_intermediate_constants, m_buffer_size,      *)
(*  m_x64_return_var, evaluate, code, pages, stale, mem, crashed].         *)
(***************************************************************************)
\* compile_elist(first, last) for the bytes `code`; `denied` is the host
\* call that fails during it ("none", "mmap" or "mprotect").  A failed mmap
\* returns MAP_FAILED, which memcpy then writes through: the process dies.
compile_elist(st, code, denied) ==
    IF denied = "mmap" THEN [st EXCEPT !.crashed = TRUE]
    ELSE LET buffer == Len(st.pages) + 1
             mapped == get_executable_buffer(st.pages, CodeSize(code))
             locked == lock_executable_buffer(mapped, buffer, denied = "mprotect")
         IN  [st EXCEPT !.pages = locked.pages,
                        !.evaluate = locked.fn,
                        !.code = IF locked.fn = 0 THEN <<>> ELSE code]

\* An evaluate() whose return sequence stores st(0) through the address of
\* the caller's variables instead of the address of m_x64_return_var.
CallEvaluate_store_to_operand(st) ==
    IF st.evaluate = 0 THEN [st EXCEPT !.crashed = TRUE]
    ELSE [st EXCEPT !.mem = [c \in DOMAIN st.mem |->
            Execute(st.code,
                    Heap(st.m_literals, st.m_intermediate_constants, st.mem, st.stale))]]

\* evaluate(): a call through the function pointer; a call through the
\* null pointer ends the process.
CallEvaluate(st) ==
    IF st.evaluate = 0 THEN [st EXCEPT !.crashed = TRUE]
    ELSE [st EXCEPT !.m_x64_return_var =
            Execute(st.code,
                    Heap(st.m_literals, st.m_intermediate_constants, st.mem, st.stale))]

\* evaluate() on the sub-function just compiled, unless the compilation
\* ended the process.
CallEvaluateAfter(st) == IF st.crashed THEN st ELSE CallEvaluate(st)

\* The sub-compilations of the precompute loop, each followed by a call of
\* evaluate(), and then the final compile_elist.  `deny` = <<call, j>> names
\* the host call denied in the j-th compilation (j = 0: none).
RECURSIVE CompileAll(_, _, _, _)
CompileAll(st, compiled, j, deny) ==
    IF st.crashed \/ j > Len(compiled) THEN st
    ELSE IF j = Len(compiled)
    THEN compile_elist(st, compiled[j], IF deny[2] = j THEN deny[1] ELSE "none")
    ELSE CompileAll(CallEvaluateAfter(
                        compile_elist(st, compiled[j], IF deny[2] = j THEN deny[1] ELSE "none")),
                    compiled, j + 1, deny)

\* The storage of the Constant objects that m_literals.clear() and
\* m_intermediate_constants.clear() destroy while the installed code still
\* embeds their addresses: it keeps its last contents until it is reused.
StaleAfterClear(st) ==
    IF st.evaluate = 0 THEN <<>>
    ELSE LET heap == Heap(st.m_literals, st.m_intermediate_constants, st.mem, st.stale)
             embedded == {a \in EmbeddedAddresses(st.code) :
                            a[1] \in {"m_literals", "m_intermediate_constants"}}
         IN  [a \in embedded |-> heap[a]]

\* The head of assign_expression: both maps cleared, every flag reset.
ClearForAssign(st) ==
    [st EXCEPT !.stale = StaleAfterClear(st),
               !.m_literals = <<>>,
               !.m_intermediate_constants = <<>>,
               !.m_variables = [s \in DOMAIN st.m_variables |->
                                   [st.m_variables[s] EXCEPT !.referenced = FALSE]]]

\* assign_expression(e) for a non-empty e: the state it leaves and how it
\* ends ("true", "throw", or "ub" where stage 1, stage 2 or the linking ran
\* into undefined behaviour; the state is then the one before stage 3).
AssignParsed(cleared, p, deny) ==
    IF p.kind = "error"
    THEN [st |-> cleared, status |-> "throw", position |-> p.position, compilations |-> 0]
    ELSE IF p.kind = "ub"
    THEN [st |-> cleared, status |-> "ub", position |-> 0, compilations |-> 0]
    ELSE [st |-> [CompileAll(
                    [cleared EXCEPT
                        !.m_literals = p.literals,
                        !.m_intermediate_constants = p.ics,
                        !.m_variables = [s \in DOMAIN cleared.m_variables |->
                            [cleared.m_variables[s] EXCEPT !.referenced = s \in p.referenced]]],
                    p.compiled, 1, deny)
                  EXCEPT !.stale = <<>>],
          status |-> "true", position |-> 0, compilations |-> Len(p.compiled)]

AssignCleared(cleared, e, deny) ==
    AssignParsed(cleared, Pipeline(e, cleared.m_variables, cleared.mem), deny)

AssignNonEmpty(st, e, deny) == AssignCleared(ClearForAssign(st), e, deny)

\* An assign_expression that returns true for the empty text after the
\* clearing and the reset, without assigning "0".
assign_expression_empty_kept(st, e, deny) ==
    IF e = <<>>
    THEN [st |-> ClearForAssign(st), status |-> "true", position |-> 0, compilations |-> 0]
    ELSE AssignNonEmpty(st, e, deny)

\* assign_expression(e): the empty text clears and resets as any call does
\* and then assigns "0".
assign_expression(st, e, deny) ==
    AssignNonEmpty(IF e = <<>> THEN ClearForAssign(st) ELSE st,
                   IF e = <<>> THEN <<"0">> ELSE e, deny)

\* An erase that leaves the map as it is.
EraseVariable_kept(st, s) == st

\* A bind that stores the Variable before it looks the name up.
bind_store_first(st, cell, ndt, s) ==
    [st |-> IF s \in FunctionNames THEN st
            ELSE [st EXCEPT !.m_variables =
                    [n \in DOMAIN st.m_variables \cup {s} |->
                        IF n = s
                        THEN [address |-> VarAddress(cell), numeric_data_type |-> ndt,
                              referenced |-> FALSE]
                        ELSE st.m_variables[n]]],
     ok |-> s \notin DOMAIN st.m_variables /\ s \notin FunctionNames]

\* bind(v, s) for the caller's storage `cell` of numeric type `ndt`.
bind(st, cell, ndt, s) ==
    IF s \notin DOMAIN st.m_variables /\ s \notin FunctionNames
    THEN [st |-> [st EXCEPT !.m_variables =
                    [n \in DOMAIN st.m_variables \cup {s} |->
                        IF n = s
                        THEN [address |-> VarAddress(cell), numeric_data_type |-> ndt,
                              referenced |-> FALSE]
                        ELSE st.m_variables[n]]],
          ok |-> TRUE]
    ELSE [st |-> st, ok |-> FALSE]

\* m_variables.erase(it)
EraseVariable(st, s) ==
    [st EXCEPT !.m_variables = [n \in DOMAIN st.m_variables \ {s} |-> st.m_variables[n]]]

\* An unbind that resets the maps and the flags, as the head of
\* assign_expression does, before it looks the name up.
unbind_reset_first(st, s, deny) ==
    IF s = "" THEN [st |-> ClearForAssign(st), ok |-> FALSE]
    ELSE IF s \in DOMAIN st.m_variables
    THEN [st |-> EraseVariable(assign_expression(st, <<"0">>, deny).st, s), ok |-> TRUE]
    ELSE [st |-> ClearForAssign(st), ok |-> FALSE]

\* unbind(s)
unbind(st, s, deny) ==
    IF s = "" THEN [st |-> st, ok |-> FALSE]
    ELSE IF s \in DOMAIN st.m_variables
    THEN [st |-> EraseVariable(IF st.m_variables[s].referenced
                               THEN assign_expression(st, <<"0">>, deny).st ELSE st, s),
          ok |-> TRUE]
    ELSE [st |-> st, ok |-> FALSE]

\* ~evaluator()
destroy(st) ==
    [st EXCEPT !.pages = free_executable_buffer(st.pages, st.evaluate, st.m_buffer_size)]

\* evaluator(): m_buffer_size(0), the two named constants, assign_expression("0").
Constructed(mem) ==
    assign_expression([m_variables |-> <<>>, m_literals |-> <<>>,
                       m_intermediate_constants |-> <<>>, m_buffer_size |-> 0,
                       m_x64_return_var |-> Indefinite, evaluate |-> 0, code |-> <<>>,
                       pages |-> <<>>,
                       stale |-> <<>>, mem |-> mem, crashed |-> FALSE],
                      <<"0">>, <<"none", 0>>).st

(***************************************************************************)
(* The state machine: one evaluator and its caller.                        *)
(***************************************************************************)
VARIABLES
    m_variables,               \* name -> [address, numeric_data_type, referenced]
    m_literals,                \* literal text -> value of its Constant
    m_intermediate_constants,  \* values of the folded Constants, in order
    m_buffer_size,
    m_x64_return_var,
    evaluate,                  \* the function pointer: an index of `pages`, or 0
    code,                      \* the bytes of the buffer `evaluate` points to
    pages,                     \* every mapping obtained from mmap, in order
    stale,                     \* address -> contents, for destroyed Constants
    mem,                       \* the caller's variables: cell -> value
    alive,                     \* "alive", "destroyed" or "crashed"
    ret,                       \* the evaluator's last member called and how it
                               \* ended: [op, result]; the double evaluate()
                               \* returned is in m_x64_return_var
    expression,                \* assign_expression's e, the ' ' appended
    index,                     \* its loop counter i
    lexer,                     \* the locals of stage 1, then its outcome
    shunted,                   \* the outcome of stage 2
    program,                   \* the outcome of stage 3 and what follows it
    emit,                      \* the compilations of the call and the locals
                               \* of the compile_elist that is running
    calls                      \* the calls of evaluate() in progress on the
                               \* threads of the caller

\* The locals of a call of assign_expression that is followed step by step.
parserVars == <<expression, index, lexer, shunted, program, emit, calls>>

vars == <<m_variables, m_literals, m_intermediate_constants, m_buffer_size,
          m_x64_return_var, evaluate, code, pages, stale, mem, alive, ret,
          expression, index, lexer, shunted, program, emit, calls>>

\* The caller's variables and their C++ types (get_ndt<double>, get_ndt<int64_t>).
CellType == [cx |-> "M64FP", cz |-> "M64INT", cp |-> "M64FP"]
Cells == DOMAIN CellType

\* The values the caller stores, and what reused heap storage may hold.
StoredValues == {Int2Q(1), Int2Q(2)}
StoreCells == {"cx"}
ReuseValues == {Int2Q(1)}

\* The calls bind(cell, name) the caller makes, and the names it unbinds.
BindCalls == {<<"cx", "x">>, <<"cz", "x">>, <<"cp", "pi">>, <<"cp", "sin">>}
UnbindNames == {"x", "pi", "sin", ""}

\* The texts the caller assigns.
Texts ==
    { <<>>,
      <<"2", "+", "x">>,
      <<"2", "+", "2">>,
      <<"x", "+">>,
      <<")">> }

NoDenial == <<"none", 0>>

State ==
    [m_variables |-> m_variables, m_literals |-> m_literals,
     m_intermediate_constants |-> m_intermediate_constants,
     m_buffer_size |-> m_buffer_size, m_x64_return_var |-> m_x64_return_var,
     evaluate |-> evaluate, code |-> code, pages |-> pages, stale |-> stale, mem |-> mem,
     crashed |-> alive = "crashed"]

Returned(op, result) == [op |-> op, result |-> result]

\* The next state is `st`; `alive` and `ret` are left to the action.
Becomes(st) ==
    /\ m_variables' = st.m_variables
    /\ m_literals' = st.m_literals
    /\ m_intermediate_constants' = st.m_intermediate_constants
    /\ m_buffer_size' = st.m_buffer_size
    /\ m_x64_return_var' = st.m_x64_return_var
    /\ evaluate' = st.evaluate
    /\ code' = st.code
    /\ pages' = st.pages
    /\ stale' = st.stale
    /\ mem' = st.mem

\* A stage of assign_expression that has not run.
NotRun == [kind |-> "none"]

\* No call of assign_expression is being followed.
NotParsing ==
    /\ expression = <<>>
    /\ index = 0
    /\ lexer = NotRun
    /\ shunted = NotRun
    /\ program = NotRun
    /\ emit = NotRun

\* No thread is in a call of evaluate() that is followed instruction by
\* instruction.
NoCalls == [kind |-> "none"]

\* The state after evaluator::evaluator().
Init ==
    /\ NotParsing
    /\ calls = NoCalls
    /\ \E st \in {Constructed([c \in Cells |-> Int2Q(1)])} :
           /\ m_variables = st.m_variables
           /\ m_literals = st.m_literals
           /\ m_intermediate_constants = st.m_intermediate_constants
           /\ m_buffer_size = st.m_buffer_size
           /\ m_x64_return_var = st.m_x64_return_var
           /\ evaluate = st.evaluate
           /\ code = st.code
           /\ pages = st.pages
           /\ stale = st.stale
           /\ mem = st.mem
           /\ alive = "alive"
           /\ ret = Returned("evaluator", "void")

\* bind(v, s) with v the caller's variable `cell`.
Bind(cell, s) ==
    /\ UNCHANGED parserVars
    /\ alive = "alive"
    /\ \E r \in {bind(State, cell, CellType[cell], s)} :
           /\ Becomes(r.st)
           /\ ret' = Returned("bind", IF r.ok THEN "true" ELSE "false")
    /\ UNCHANGED alive

\* unbind(s)
Unbind(s) ==
    /\ UNCHANGED parserVars
    /\ alive = "alive"
    /\ \E r \in {unbind(State, s, NoDenial)} :
           /\ Len(r.st.pages) <= MaxPages
           /\ Becomes(r.st)
           /\ ret' = Returned("unbind", IF r.ok THEN "true" ELSE "false")
    /\ UNCHANGED alive

\* assign_expression(e), returning true or throwing mexce_parsing_exception.
AssignExpression(e) ==
    /\ UNCHANGED parserVars
    /\ alive = "alive"
    /\ \E r \in {assign_expression(State, e, NoDenial)} :
           /\ r.status \in {"true", "throw"}
           /\ Len(r.st.pages) <= MaxPages
           /\ Becomes(r.st)
           /\ ret' = Returned("assign_expression", r.status)
    /\ UNCHANGED alive

\* assign_expression(e) on a text that takes the parser into undefined
\* behaviour (bdarray.back() or tstack.back() of an empty vector): the read
\* returns whatever lies before the buffer, and the call either throws on
\* it or the process dies.
AssignExpressionUndefined(e) ==
    /\ UNCHANGED parserVars
    /\ alive = "alive"
    /\ \E r \in {assign_expression(State, e, NoDenial)} :
           /\ r.status = "ub"
           /\ Becomes(r.st)
           /\ \E outcome \in {"throw", "crash"} :
                /\ ret' = Returned("assign_expression", outcome)
                /\ alive' = IF outcome = "crash" THEN "crashed" ELSE alive

\* evaluate()
Evaluate ==
    /\ UNCHANGED parserVars
    /\ alive = "alive"
    /\ evaluate # 0
    /\ \E r \in {CallEvaluate(State)} :
           /\ Becomes(r)
           /\ ret' = Returned("evaluate", "value")
    /\ UNCHANGED alive

\* The caller assigns to one of its variables.
Store(cell, v) ==
    /\ UNCHANGED parserVars
    /\ alive = "alive"
    /\ mem[cell] # v
    /\ mem' = [mem EXCEPT ![cell] = v]
    /\ UNCHANGED <<m_variables, m_literals, m_intermediate_constants, m_buffer_size,
                   m_x64_return_var, evaluate, code, pages, stale, alive, ret>>

\* The allocator hands the storage of a destroyed Constant to someone else,
\* who writes to it.
Reuse(a, v) ==
    /\ UNCHANGED parserVars
    /\ alive = "alive"
    /\ a \in DOMAIN stale
    /\ stale[a] # v
    /\ stale' = [stale EXCEPT ![a] = v]
    /\ UNCHANGED <<m_variables, m_literals, m_intermediate_constants, m_buffer_size,
                   m_x64_return_var, evaluate, code, pages, mem, alive, ret>>

\* ~evaluator()
Destroy ==
    /\ UNCHANGED parserVars
    /\ alive = "alive"
    /\ Becomes(destroy(State))
    /\ alive' = "destroyed"
    /\ ret' = Returned("~evaluator", "void")

Next ==
    \/ \E b \in BindCalls : Bind(b[1], b[2])
    \/ \E s \in UnbindNames : Unbind(s)
    \/ \E e \in Texts : AssignExpression(e)
    \/ \E e \in Texts : AssignExpressionUndefined(e)
    \/ Evaluate
    \/ \E cell \in StoreCells, v \in StoredValues : Store(cell, v)
    \/ \E a \in DOMAIN stale, v \in ReuseValues : Reuse(a, v)
    \/ Destroy

Spec == Init /\ [][Next]_vars

(***************************************************************************)
(* The same evaluator on a host that may refuse a request: mmap returns    *)
(* MAP_FAILED or mprotect returns nonzero in one of the compilations of a  *)
(* call.                                                                   *)
(***************************************************************************)
HostCalls == {"mmap", "mprotect"}

\* assign_expression(e) during which the host denies `call` in the j-th
\* compile_elist.
AssignExpressionDenied(e, call, j) ==
    /\ UNCHANGED parserVars
    /\ alive = "alive"
    /\ \E r \in {assign_expression(State, e, <<call, j>>)} :
           /\ r.status = "true"
           /\ j <= r.compilations
           /\ Len(r.st.pages) <= MaxPages
           /\ Becomes(r.st)
           /\ ret' = Returned("assign_expression", IF r.st.crashed THEN "crash" ELSE "true")
           /\ alive' = IF r.st.crashed THEN "crashed" ELSE alive

\* unbind(s) of a referenced name, during which the host denies `call` in
\* the compilation of "0".
UnbindDenied(s, call) ==
    /\ UNCHANGED parserVars
    /\ alive = "alive"
    /\ s \in DOMAIN m_variables
    /\ m_variables[s].referenced
    /\ \E r \in {unbind(State, s, <<call, 1>>)} :
           /\ Len(r.st.pages) <= MaxPages
           /\ Becomes(r.st)
           /\ ret' = Returned("unbind", IF r.st.crashed THEN "crash" ELSE "true")
           /\ alive' = IF r.st.crashed THEN "crashed" ELSE alive

\* evaluate() through the null pointer a denied mprotect left in the slot.
EvaluateNull ==
    /\ UNCHANGED parserVars
    /\ alive = "alive"
    /\ evaluate = 0
    /\ Becomes(CallEvaluate(State))
    /\ ret' = Returned("evaluate", "crash")
    /\ alive' = "crashed"

NextHost ==
    \/ \E b \in BindCalls : Bind(b[1], b[2])
    \/ \E s \in UnbindNames : Unbind(s)
    \/ \E e \in Texts : AssignExpression(e)
    \/ Evaluate
    \/ \E e \in Texts, call \in HostCalls, j \in 1..MaxPages : AssignExpressionDenied(e, call, j)
    \/ \E s \in UnbindNames, call \in HostCalls : UnbindDenied(s, call)
    \/ EvaluateNull

SpecHost == Init /\ [][NextHost]_vars

(***************************************************************************)
(* One call of assign_expression followed stage by stage, on an evaluator  *)
(* with the double x bound as "x".                                         *)
(***************************************************************************)
\* The texts the followed call is given (never empty: the empty text is
\* replaced by "0" before stage 1).
SIN == <<"s", "i", "n">>
POW == <<"p", "o", "w">>

\* Calls name(arg, ..., arg).
FunctionTexts == {SIN, POW}
ArgTexts == {<<"1">>, <<"(", "1", ")">>, SIN \o <<"(", "x", ")">>}
ArgLists == UNION {[1..n -> ArgTexts] : n \in 0..MaxArgs}

RECURSIVE JoinArgs(_)
JoinArgs(args) ==
    IF args = <<>> THEN <<>>
    ELSE IF Len(args) = 1 THEN args[1]
    ELSE args[1] \o <<",">> \o JoinArgs(Tail(args))

CallText(name, args) == name \o <<"(">> \o JoinArgs(args) \o <<")">>

CallTexts == {CallText(name, args) : name \in FunctionTexts, args \in ArgLists}

\* Commas outside any call or inside a plain parenthesis.
StrayCommaTexts ==
    { <<"1", ",", "1">>,
      <<"(", "1", ",", "1", ")">>,
      <<"(", "1", ",", "1">>,
      SIN \o <<"(", "(", "1", ",", "1", ")", ")">>,
      POW \o <<"(", "(", "1", ",", "1", ")", ")">>,
      POW \o <<"(", "(", "1", ",", "1", ")", ",", "1", ")">>,
      POW \o <<"(", "1", ",", "1", ")", ",", "1">> }

\* Every text of at most MaxBracketChars characters out of ( ) 1 and space.
BracketTexts == UNION {[1..n -> {"(", ")", "1", " "}] : n \in 1..MaxBracketChars}

\* Operands 1, 2, ... joined by binary operators, and the same with one pair
\* of parentheses.
Operators == {"+", "-", "*", "/", "^", "<"}

Interleave(ops) ==
    [k \in 1..(2 * Len(ops) + 1) |->
        IF k % 2 = 1 THEN Digits[(k + 1) \div 2 + 1] ELSE ops[k \div 2]]

InfixTexts == {Interleave(ops) : ops \in UNION {[1..n -> Operators] : n \in 1..MaxOperators}}

ParenTexts ==
    {<<"(", "1", a, "2", ")", b, "3">> : a \in Operators, b \in Operators}
    \cup {<<"1", a, "(", "2", b, "3", ")">> : a \in Operators, b \in Operators}

\* Operands 1, 2, ... joined by binary operators (one additive, the two
\* multiplicative ones and the power), each operand with no sign, a '+' or a
\* '-' in front of it.
SignedOperators == {"-", "*", "/", "^"}
Signs == {<<>>, <<"+">>, <<"-">>}

RECURSIVE SignedText(_, _)
SignedText(ops, signs) ==
    IF ops = <<>> THEN signs[1] \o <<Digits[Len(signs) + 1]>>
    ELSE SignedText(PopBack(ops), PopBack(signs))
         \o <<Back(ops)>> \o Back(signs) \o <<Digits[Len(signs) + 1]>>

SignedTexts ==
    UNION {{SignedText(ops, signs) : ops \in [1..n -> SignedOperators], signs \in [1..(n + 1) -> Signs]} :
            n \in 0..MaxSignedOperators}

\* -1^0 and -1^1-1.
PowerSignTexts == {<<"-", "1", "^", "0">>, <<"-", "1", "^", "1", "-", "1">>}

\* Every text of at most MaxLiteralChars characters out of 1 . x ( and +.
LiteralTexts == UNION {[1..n -> {"1", ".", "x", "(", "+"}] : n \in 1..MaxLiteralChars}

\* Accepted texts, token by token, and the same with f[g] spaces put in
\* gap g (gap 1 before the first token, the last gap after the last), at
\* most MaxSpaces spaces in all.
SpacedBases ==
    { <<SIN, <<"(">>, <<"x">>, <<")">> >>,
      <<POW, <<"(">>, <<"1">>, <<",">>, <<"x">>, <<")">> >>,
      << <<"(">>, <<"-">>, <<"1">>, <<")">>, <<"*">>, <<"x">> >> }

Spaces(n) == [k \in 1..n |-> " "]

RECURSIVE Spaced(_, _)
Spaced(base, f) ==
    IF base = <<>> THEN Spaces(f[1])
    ELSE Spaced(PopBack(base), f) \o Back(base) \o Spaces(f[Len(base) + 1])

RECURSIVE SumTo(_, _)
SumTo(f, n) == IF n = 0 THEN 0 ELSE f[n] + SumTo(f, n - 1)

Insertions(base) ==
    {f \in [1..(Len(base) + 1) -> 0..MaxSpaces] : SumTo(f, Len(base) + 1) <= MaxSpaces}

SpacedTexts == UNION {{Spaced(base, f) : f \in Insertions(base)} : base \in SpacedBases}

\* max(x,max(x,...max(x,x)...)) with n calls of max.
RECURSIVE NestedMax(_)
NestedMax(n) ==
    IF n = 0 THEN <<"x">>
    ELSE <<"m", "a", "x", "(", "x", ",">> \o NestedMax(n - 1) \o <<")">>

NestedTexts == {NestedMax(n) : n \in 1..MaxNesting}

\* The bound variable followed by a binary operator and nothing else.
DanglingOperatorTexts == {<<"x", op>> : op \in Operators}

\* The usage example at the head of mexce.h:
\* "0.3+(-sin(2.33+x-log((.3*pi+(88/y)/e),3.2+z)))/98".
HeaderExample ==
    << "0", ".", "3", "+", "(", "-", "s", "i", "n", "(", "2", ".", "3",
       "3", "+", "x", "-", "l", "o", "g", "(", "(", ".", "3", "*", "p",
       "i", "+", "(", "8", "8", "/", "y", ")", "/", "e", ")", ",", "3",
       ".", "2", "+", "z", ")", ")", ")", "/", "9", "8" >>

\* The bindings of the usage example: float x, double y, int z ("z" after
\* the bind of z as "x" returned false).
HeaderBindings == [x |-> "M32FP", y |-> "M64FP", z |-> "M32INT"]

\* The texts given to the evaluator of the usage example: the example, and
\* calls of log with one and with two arguments.
HeaderTexts ==
    { HeaderExample,
      <<"l", "o", "g", "(", "y", ")">>,
      <<"l", "o", "g", "(", "y", ",", "z", ")">> }

\* One variable of each numeric type bind accepts (get_ndt<T>), by name.
KindBindings ==
    [s |-> "M16INT", i |-> "M32INT", l |-> "M64INT", f |-> "M32FP", d |-> "M64FP"]

\* What the caller's five variables hold.
KindValues == [s |-> Int2Q(3), i |-> Int2Q(5), l |-> Int2Q(7), f |-> Int2Q(11), d |-> Int2Q(13)]

\* Operands: a literal, a named constant, the five variables, a call.
OperandTexts ==
    { <<"2">>, <<"p", "i">>, <<"s">>, <<"i">>, <<"l">>, <<"f">>, <<"d">>,
      SIN \o <<"(", "d", ")">> }

\* left op right for the four operations that have asmd_optimizer.
BinaryTexts ==
    {l \o <<op>> \o r : l \in OperandTexts, op \in {"+", "-", "*", "/"}, r \in OperandTexts}

\* Exponents: the integers 0..10, 16, 32 and 33, 2.0, 2.5 and .5, (2), -2,
\* a named constant, a variable and a call.
ExponentTexts ==
    {<<Digits[k]>> : k \in 1..10}
    \cup { <<"1", "0">>, <<"1", "6">>, <<"3", "2">>, <<"3", "3">>,
           <<"2", ".", "0">>, <<"2", ".", "5">>, <<".", "5">>,
           <<"(", "2", ")">>, <<"-", "2">>,
           <<"p", "i">>, <<"d">>, SIN \o <<"(", "d", ")">> }

\* base ^ exponent.
PowerTexts ==
    {b \o <<"^">> \o x : b \in {<<"d">>, <<"1">>, SIN \o <<"(", "d", ")">>},
                          x \in ExponentTexts}

OptimizerTexts == BinaryTexts \cup PowerTexts

ParseTexts ==
    CallTexts \cup StrayCommaTexts \cup BracketTexts \cup InfixTexts \cup ParenTexts
    \cup SignedTexts \cup PowerSignTexts \cup LiteralTexts \cup SpacedTexts
    \cup DanglingOperatorTexts \cup NestedTexts

\* How a stage that ended in `r` ends the call: a throw, or whatever the
\* undefined behaviour brings, or not at all.
Ends(r) ==
    IF r.kind = "error"
    THEN ret' = Returned("assign_expression", "throw") /\ UNCHANGED alive
    ELSE IF r.kind = "ub"
    THEN \E outcome \in {"throw", "crash"} :
            /\ ret' = Returned("assign_expression", outcome)
            /\ alive' = IF outcome = "crash" THEN "crashed" ELSE alive
    ELSE UNCHANGED <<ret, alive>>

\* The call is made: the head of assign_expression, e += ' ', the locals of
\* stage 1.
AssignBegin ==
    /\ UNCHANGED calls
    /\ alive = "alive"
    /\ lexer = NotRun
    /\ Becomes(ClearForAssign(State))
    /\ \E t \in (CASE DOMAIN m_variables = DOMAIN HeaderBindings -> HeaderTexts
                     [] DOMAIN m_variables = DOMAIN KindBindings -> OptimizerTexts
                     [] OTHER -> ParseTexts) :
           expression' = t \o <<" ">>
    /\ index' = 0
    /\ lexer' = LexInit
    /\ UNCHANGED <<shunted, program, emit, alive, ret>>

\* One iteration of the for loop of stage 1.
LexChar ==
    /\ UNCHANGED calls
    /\ alive = "alive"
    /\ lexer.kind = "run"
    /\ index < Len(expression)
    /\ \E r \in {LexStep(lexer, expression[index + 1], index,
                         DOMAIN m_variables, DOMAIN NamedConstants)} :
           /\ lexer' = r
           /\ index' = IF r.kind = "run" THEN index + 1 ELSE index
           /\ Ends(r)
    /\ UNCHANGED <<m_variables, m_literals, m_intermediate_constants, m_buffer_size,
                   m_x64_return_var, evaluate, code, pages, stale, mem,
                   expression, shunted, program, emit>>

\* The checks after the loop.
LexEnd ==
    /\ UNCHANGED calls
    /\ alive = "alive"
    /\ lexer.kind = "run"
    /\ index = Len(expression)
    /\ \E r \in {Stage1End(lexer, index)} :
           /\ lexer' = r
           /\ Ends(r)
    /\ UNCHANGED <<m_variables, m_literals, m_intermediate_constants, m_buffer_size,
                   m_x64_return_var, evaluate, code, pages, stale, mem,
                   expression, index, shunted, program, emit>>

\* Stage 2.
ToPostfix ==
    /\ UNCHANGED calls
    /\ alive = "alive"
    /\ lexer.kind = "ok"
    /\ shunted = NotRun
    /\ \E r \in {Stage2(lexer.tokens)} :
           /\ shunted' = r
           /\ Ends(r)
    /\ UNCHANGED <<m_variables, m_literals, m_intermediate_constants, m_buffer_size,
                   m_x64_return_var, evaluate, code, pages, stale, mem,
                   expression, index, lexer, program, emit>>

\* Stage 3 and the rest of the call: linking, the optimizers, folding, the
\* compilations.
ToProgram ==
    /\ UNCHANGED calls
    /\ alive = "alive"
    /\ shunted.kind = "ok"
    /\ program = NotRun
    /\ \E r \in {PipelineStage3(Stage3(shunted.postfix, m_variables), mem)} :
           /\ program' = r
           /\ \E a \in {AssignParsed(State, r, NoDenial)} :
                  /\ Becomes(a.st)
                  /\ IF a.status = "ub" THEN Ends(r)
                     ELSE ret' = Returned("assign_expression", a.status) /\ UNCHANGED alive
    /\ UNCHANGED <<expression, index, lexer, shunted, emit>>

\* The evaluator of the usage example after its four binds, the caller's
\* x, y and z holding 2.
HeaderEvaluator ==
    bind(bind(bind(bind(Constructed([c \in DOMAIN HeaderBindings |-> Int2Q(2)]),
                        "x", HeaderBindings["x"], "x").st,
                   "y", HeaderBindings["y"], "y").st,
              "z", HeaderBindings["z"], "x").st,
         "z", HeaderBindings["z"], "z").st

\* The evaluator after one bind for each numeric type.
RECURSIVE BindEach(_, _)
BindEach(st, names) ==
    IF names = {} THEN st
    ELSE LET n == CHOOSE n \in names : TRUE
         IN  BindEach(bind(st, n, KindBindings[n], n).st, names \ {n})

KindsEvaluator == BindEach(Constructed(KindValues), DOMAIN KindBindings)

\* The evaluator after bind(x, "x"), the caller's x holding 2, or the
\* evaluator of the usage example, or the evaluator with a variable of each
\* type.
InitParse ==
    /\ NotParsing
    /\ calls = NoCalls
    /\ \E st \in {bind(Constructed([c \in Cells |-> Int2Q(2)]), "cx", CellType["cx"], "x").st,
                  HeaderEvaluator, KindsEvaluator} :
           /\ m_variables = st.m_variables
           /\ m_literals = st.m_literals
           /\ m_intermediate_constants = st.m_intermediate_constants
           /\ m_buffer_size = st.m_buffer_size
           /\ m_x64_return_var = st.m_x64_return_var
           /\ evaluate = st.evaluate
           /\ code = st.code
           /\ pages = st.pages
           /\ stale = st.stale
           /\ mem = st.mem
           /\ alive = "alive"
           /\ ret = Returned("bind", "true")

NextParse ==
    \/ AssignBegin
    \/ LexChar
    \/ LexEnd
    \/ ToPostfix
    \/ ToProgram

SpecParse == InitParse /\ [][NextParse]_vars

(***************************************************************************)
(* A call of assign_expression followed through its compilations: every    *)
(* compile_elist of the precompute loop and the final one, statement by    *)
(* statement, and the evaluate() after each sub-compilation.               *)
(***************************************************************************)
\* The texts given: "", 2+x, 2+2, 2*2+2 and x+.
EmitTexts ==
    { <<>>,
      <<"2", "+", "x">>,
      <<"2", "+", "2">>,
      <<"2", "*", "2", "+", "2">>,
      <<"x", "+">> }

\* The bytes of `code` as code_buffer holds them: the address operand of
\* return_sequence is the filler 0xcdcdcdcdcdcdcdcd.
Unpatched(c) ==
    [k \in 1..Len(c) |->
        IF c[k].t = "return_sequence"
        THEN [c[k] EXCEPT !.address = <<"uninitialized", "">>] ELSE c[k]]

\* A compile_elist whose statements run in the order get_executable_buffer,
\* lock_executable_buffer, memcpy, patch, assignment.
AfterStep_seal_first(pc) ==
    CASE pc = "get_executable_buffer" -> "lock_executable_buffer"
      [] pc = "lock_executable_buffer" -> "memcpy"
      [] pc = "memcpy" -> "patch"
      [] pc = "patch" -> "assign"

\* The statement of compile_elist that follows the statement pc:
\* get_executable_buffer, memcpy, the patch of &m_x64_return_var,
\* lock_executable_buffer, the assignment to evaluate.
AfterStep(pc) ==
    CASE pc = "get_executable_buffer" -> "memcpy"
      [] pc = "memcpy" -> "patch"
      [] pc = "patch" -> "lock_executable_buffer"
      [] pc = "lock_executable_buffer" -> "assign"

\* The call is made and runs up to its first compile_elist, or throws.
\* `compiled` are the code strings of the compilations to come, in order.
EmitBegin ==
    /\ UNCHANGED calls
    /\ alive = "alive"
    /\ emit = NotRun
    /\ \E e \in EmitTexts :
        \E cleared \in {ClearForAssign(State)} :
        \E p \in {Pipeline(IF e = <<>> THEN <<"0">> ELSE e, cleared.m_variables, mem)} :
            IF p.kind = "ok"
            THEN /\ Len(pages) + Len(p.compiled) <= MaxEmitPages
                 /\ Becomes([cleared EXCEPT
                        !.m_literals = p.literals,
                        !.m_variables = [s \in DOMAIN cleared.m_variables |->
                            [cleared.m_variables[s] EXCEPT !.referenced = s \in p.referenced]]])
                 /\ emit' = [kind |-> "run", compiled |-> p.compiled, j |-> 1,
                             pc |-> "get_executable_buffer", buffer |-> 0,
                             bytes |-> <<>>, fn |-> 0]
                 /\ UNCHANGED <<ret, alive>>
            ELSE /\ p.kind = "error"
                 /\ Becomes(cleared)
                 /\ ret' = Returned("assign_expression", "throw")
                 /\ UNCHANGED <<emit, alive>>
    /\ UNCHANGED <<expression, index, lexer, shunted, program>>

\* auto buffer = get_executable_buffer(code.size());
EmitMap ==
    /\ UNCHANGED calls
    /\ emit.kind = "run"
    /\ emit.pc = "get_executable_buffer"
    /\ pages' = get_executable_buffer(pages, CodeSize(emit.compiled[emit.j]))
    /\ emit' = [emit EXCEPT !.buffer = Len(pages) + 1, !.bytes = <<>>,
                            !.pc = AfterStep(emit.pc)]
    /\ UNCHANGED <<m_variables, m_literals, m_intermediate_constants, m_buffer_size,
                   m_x64_return_var, evaluate, code, stale, mem, alive, ret,
                   expression, index, lexer, shunted, program>>

\* memcpy(buffer, &code[0], code.size());
EmitCopy ==
    /\ UNCHANGED calls
    /\ emit.kind = "run"
    /\ emit.pc = "memcpy"
    /\ emit' = [emit EXCEPT !.bytes = Unpatched(emit.compiled[emit.j]),
                            !.pc = AfterStep(emit.pc)]
    /\ UNCHANGED <<m_variables, m_literals, m_intermediate_constants, m_buffer_size,
                   m_x64_return_var, evaluate, code, pages, stale, mem, alive, ret,
                   expression, index, lexer, shunted, program>>

\* *((uint64_t*)(buffer+code.size()-16)) = (uint64_t)&m_x64_return_var;
EmitPatch ==
    /\ UNCHANGED calls
    /\ emit.kind = "run"
    /\ emit.pc = "patch"
    /\ emit' = [emit EXCEPT !.bytes = [k \in 1..Len(emit.bytes) |->
                                IF emit.bytes[k].t = "return_sequence"
                                THEN [emit.bytes[k] EXCEPT !.address = ReturnVarAddress]
                                ELSE emit.bytes[k]],
                            !.pc = AfterStep(emit.pc)]
    /\ UNCHANGED <<m_variables, m_literals, m_intermediate_constants, m_buffer_size,
                   m_x64_return_var, evaluate, code, pages, stale, mem, alive, ret,
                   expression, index, lexer, shunted, program>>

\* lock_executable_buffer(buffer, code.size()), its result not yet assigned.
EmitSeal ==
    /\ UNCHANGED calls
    /\ emit.kind = "run"
    /\ emit.pc = "lock_executable_buffer"
    /\ \E r \in {lock_executable_buffer(pages, emit.buffer, FALSE)} :
           /\ pages' = r.pages
           /\ emit' = [emit EXCEPT !.fn = r.fn, !.pc = AfterStep(emit.pc)]
    /\ UNCHANGED <<m_variables, m_literals, m_intermediate_constants, m_buffer_size,
                   m_x64_return_var, evaluate, code, stale, mem, alive, ret,
                   expression, index, lexer, shunted, program>>

\* evaluate = (the pointer lock_executable_buffer returned); after the
\* final compile_elist assign_expression returns true.
EmitPublish ==
    /\ UNCHANGED calls
    /\ emit.kind = "run"
    /\ emit.pc = "assign"
    /\ evaluate' = emit.fn
    /\ code' = emit.bytes
    /\ IF emit.j = Len(emit.compiled)
       THEN /\ emit' = NotRun
            /\ stale' = <<>>
            /\ ret' = Returned("assign_expression", "true")
       ELSE /\ emit' = [emit EXCEPT !.pc = "evaluate"]
            /\ UNCHANGED <<stale, ret>>
    /\ UNCHANGED <<m_variables, m_literals, m_intermediate_constants, m_buffer_size,
                   m_x64_return_var, pages, mem, alive,
                   expression, index, lexer, shunted, program>>

\* auto ic = make_shared<Constant>(evaluate());
\* m_intermediate_constants.push_back(ic); and on to the next compile_elist.
EmitCall ==
    /\ UNCHANGED calls
    /\ emit.kind = "run"
    /\ emit.pc = "evaluate"
    /\ \E st \in {CallEvaluate(State)} :
           Becomes([st EXCEPT !.m_intermediate_constants =
                        Append(st.m_intermediate_constants, st.m_x64_return_var)])
    /\ emit' = [emit EXCEPT !.j = emit.j + 1, !.pc = "get_executable_buffer"]
    /\ UNCHANGED <<alive, ret, expression, index, lexer, shunted, program>>

NextEmit ==
    \/ EmitBegin
    \/ EmitMap
    \/ EmitCopy
    \/ EmitPatch
    \/ EmitSeal
    \/ EmitPublish
    \/ EmitCall

SpecEmit == InitParse /\ [][NextEmit]_vars

(***************************************************************************)
(* Calls of evaluate() from two threads, followed through the return       *)
(* sequence: the body leaves the result in st(0) of the calling thread,    *)
(* `fstp qword ptr [rax]` stores it to the m_x64_return_var whose address  *)
(* was patched into the code, `movq xmm0, mmword ptr [rax]` loads it back. *)
(* The threads either share this evaluator, or each has an evaluator of    *)
(* its own that was given the same bindings and the same expression.       *)
(***************************************************************************)
Threads == {1, 2}

\* The expressions of the evaluators.
ThreadTexts == {<<"x">>, <<"2", "+", "x">>}

\* The evaluator whose m_x64_return_var a program compiled by evaluator `e`
\* addresses: a program addressing one static temporary instead.
PatchedEvaluator_static(e) == 1

\* The evaluator whose m_x64_return_var a program compiled by evaluator `e`
\* addresses: (uint64_t)&m_x64_return_var, a member of `e` itself.
PatchedEvaluator(e) == e

\* Evaluator 1 is the evaluator of this model; the m_x64_return_var of
\* evaluator 2 is calls.m_x64_return_var.
ReturnVar(e) == IF e = 1 THEN m_x64_return_var ELSE calls.m_x64_return_var

NotCalling == [pc |-> "idle", on |-> 0, st0 |-> Indefinite, xmm0 |-> Indefinite]

\* Thread t calls evaluate() of the shared evaluator or of its own.
ThreadCall(t) ==
    /\ alive = "alive"
    /\ evaluate # 0
    /\ calls.th[t].pc \in {"idle", "returned"}
    /\ calls' = [calls EXCEPT !.th[t] =
                    [pc |-> "called",
                     on |-> IF calls.sharing = "shared" THEN 1 ELSE t,
                     st0 |-> Indefinite, xmm0 |-> Indefinite]]
    /\ UNCHANGED <<m_variables, m_literals, m_intermediate_constants, m_buffer_size,
                   m_x64_return_var, evaluate, code, pages, stale, mem, alive, ret,
                   expression, index, lexer, shunted, program, emit>>

\* The code before the return sequence: the result is in st(0) of thread t.
ThreadBody(t) ==
    /\ calls.th[t].pc = "called"
    /\ calls' = [calls EXCEPT !.th[t].pc = "computed",
                              !.th[t].st0 = Execute(code, Heap(m_literals,
                                                m_intermediate_constants, mem, stale))]
    /\ UNCHANGED <<m_variables, m_literals, m_intermediate_constants, m_buffer_size,
                   m_x64_return_var, evaluate, code, pages, stale, mem, alive, ret,
                   expression, index, lexer, shunted, program, emit>>

\* mov rax, &m_x64_return_var; fstp qword ptr [rax]
ThreadFstp(t) ==
    /\ calls.th[t].pc = "computed"
    /\ IF PatchedEvaluator(calls.th[t].on) = 1
       THEN /\ m_x64_return_var' = calls.th[t].st0
            /\ calls' = [calls EXCEPT !.th[t].pc = "stored"]
       ELSE /\ calls' = [calls EXCEPT !.th[t].pc = "stored",
                                      !.m_x64_return_var = calls.th[t].st0]
            /\ UNCHANGED m_x64_return_var
    /\ UNCHANGED <<m_variables, m_literals, m_intermediate_constants, m_buffer_size,
                   evaluate, code, pages, stale, mem, alive, ret,
                   expression, index, lexer, shunted, program, emit>>

\* movq xmm0, mmword ptr [rax]; pop rax; ret
ThreadMovq(t) ==
    /\ calls.th[t].pc = "stored"
    /\ calls' = [calls EXCEPT !.th[t].pc = "returned",
                              !.th[t].xmm0 = ReturnVar(PatchedEvaluator(calls.th[t].on))]
    /\ UNCHANGED <<m_variables, m_literals, m_intermediate_constants, m_buffer_size,
                   m_x64_return_var, evaluate, code, pages, stale, mem, alive, ret,
                   expression, index, lexer, shunted, program, emit>>

\* x is bound to the caller's cx and the expression is assigned, by every
\* evaluator; no call is in progress.
InitThreads ==
    /\ NotParsing
    /\ \E sharing \in {"shared", "own"} :
           calls = [kind |-> "run", sharing |-> sharing,
                    m_x64_return_var |-> Indefinite,
                    th |-> [t \in Threads |-> NotCalling]]
    /\ \E e \in ThreadTexts :
       \E st \in {assign_expression(bind(Constructed([c \in Cells |-> Int2Q(1)]),
                                         "cx", CellType["cx"], "x").st,
                                    e, NoDenial).st} :
           /\ m_variables = st.m_variables
           /\ m_literals = st.m_literals
           /\ m_intermediate_constants = st.m_intermediate_constants
           /\ m_buffer_size = st.m_buffer_size
           /\ m_x64_return_var = st.m_x64_return_var
           /\ evaluate = st.evaluate
           /\ code = st.code
           /\ pages = st.pages
           /\ stale = st.stale
           /\ mem = st.mem
           /\ alive = "alive"
           /\ ret = Returned("assign_expression", "true")

NextThreads ==
    \/ \E t \in Threads : ThreadCall(t)
    \/ \E t \in Threads : ThreadBody(t)
    \/ \E t \in Threads : ThreadFstp(t)
    \/ \E t \in Threads : ThreadMovq(t)
    \/ \E cell \in StoreCells, v \in StoredValues : Store(cell, v)

SpecThreads == InitThreads /\ [][NextThreads]_vars

(***************************************************************************)
(* Properties of the facade and of the page allocator.                     *)
(***************************************************************************)
\* The heap as the installed code finds it.
CurrentHeap == Heap(m_literals, m_intermediate_constants, mem, stale)

\* What evaluate() would return now, and after the step.
CurrentValue == Execute(code, CurrentHeap)
NextValue == Execute(code', Heap(m_literals', m_intermediate_constants', mem', stale'))

\* The addresses of objects that are alive, given the two maps of literals
\* and intermediate constants: the caller's variables, the Constants owned
\* by the three maps, and the scratch slot.
LiveAddresses(lits, ics) ==
    {VarAddress(c) : c \in DOMAIN mem}
    \cup {NamedConstantAddress(n) : n \in DOMAIN NamedConstants}
    \cup {LiteralAddress(t) : t \in DOMAIN lits}
    \cup {IntermediateAddress(k) : k \in 1..Len(ics)}
    \cup {ReturnVarAddress}

\* The mappings obtained from mmap and not unmapped.
MappedPages == {i \in 1..Len(pages) : pages[i].mapped}

\* A complete program: the prologue, loads and function codes, the return
\* sequence.
CompleteProgram(c) ==
    /\ Len(c) >= 2
    /\ c[1].t = "push_rax"
    /\ c[Len(c)].t = "return_sequence"
    /\ \A i \in 2..(Len(c) - 1) : c[i].t \in {"load", "call"}

\* C1: a call of assign_expression that throws a parse error leaves the
\* function pointer and the installed bytes unchanged, leaves evaluate()
\* returning what it returned before, and leaves every object the installed
\* code reads alive.
C1_AtomicReplacement ==
    [][ (/\ ret' = Returned("assign_expression", "throw")
         /\ \E e \in Texts : AssignExpression(e))
        => (/\ evaluate' = evaluate
            /\ code' = code
            /\ NextValue = CurrentValue
            /\ ReadAddresses(code') \subseteq
                    LiveAddresses(m_literals', m_intermediate_constants')) ]_vars

\* C2: when the installed program reads the storage bound to a name and
\* unbind of that name returns true, the next evaluate() returns 0.0.
C2_InvalidationOnUnbind ==
    [][ \A s \in UnbindNames :
            (/\ s \in DOMAIN m_variables
             /\ m_variables[s].address \in ReadAddresses(code)
             /\ ret' = Returned("unbind", "true")
             /\ Unbind(s))
            => (NextValue = Zero) ]_vars

\* C3: bind returns false for a name that is already bound, names a named
\* constant or names a catalog operation, so that no bound name is ever the
\* name of a named constant or of an operation.
C3_NameExclusivity ==
    [][ \A b \in BindCalls :
            (/\ ret'.op = "bind"
             /\ Bind(b[1], b[2]))
            => (/\ (b[2] \in DOMAIN m_variables \cup DOMAIN NamedConstants \cup FunctionNames)
                        => (ret'.result = "false")
                /\ DOMAIN m_variables' \cap (DOMAIN NamedConstants \cup FunctionNames) = {}) ]_vars

\* C4: a call of bind that returns false changes nothing: not the set of
\* bindings, not the address, kind or referenced flag of any binding, not
\* the installed program.
C4_FailedBindNoEffect ==
    [][ (/\ ret' = Returned("bind", "false")
         /\ \E b \in BindCalls : Bind(b[1], b[2]))
        => UNCHANGED <<m_variables, m_literals, m_intermediate_constants, m_buffer_size,
                       m_x64_return_var, evaluate, code, pages, stale, mem>> ]_vars

\* A bind has just returned false for a name that is bound, while the
\* installed program reads that binding.
C4_Witness ==
    /\ ret = Returned("bind", "false")
    /\ \E s \in DOMAIN m_variables :
            m_variables[s].referenced /\ m_variables[s].address \in ReadAddresses(code)

C6_BindingTransparency ==
    alive = "alive" =>
        \A s \in DOMAIN m_variables :
            m_variables[s].referenced => m_variables[s].address \in ReadAddresses(code)

C8_SinglePage == alive = "alive" => MappedPages \subseteq {evaluate}

\* C9: after the destructor no page the evaluator mapped is still mapped.
C9_TeardownReleases == alive = "destroyed" => MappedPages = {}

\* C10: when the host denies the mmap or the mprotect of a compilation
\* during assign_expression, the function pointer and the installed bytes
\* are as before and evaluate() still returns the value of the previous
\* expression.
C10_BackEndFailureAtomic ==
    [][ (/\ ret'.op = "assign_expression"
         /\ \E e \in Texts, call \in HostCalls, j \in 1..MaxPages :
                AssignExpressionDenied(e, call, j))
        => (/\ alive' = "alive"
            /\ evaluate' = evaluate
            /\ code' = code
            /\ NextValue = CurrentValue) ]_vars

\* C11: between the calls, the referenced flag of every binding is true
\* exactly when the installed program reads the address of that binding.
C11_ReferencedFlag ==
    alive = "alive" =>
        \A s \in DOMAIN m_variables :
            m_variables[s].referenced <=> (m_variables[s].address \in ReadAddresses(code))

\* C12: unbind of a name that has no binding (the empty string, a named
\* constant and an operation name among them) returns false and changes
\* neither the bindings and their flags nor the installed program.
C12_UnbindNotFound ==
    [][ \A s \in UnbindNames :
            (/\ s \notin DOMAIN m_variables
             /\ ret'.op = "unbind"
             /\ Unbind(s))
            => (/\ ret'.result = "false"
                /\ UNCHANGED <<m_variables, m_literals, m_intermediate_constants,
                               m_buffer_size, m_x64_return_var, evaluate, code, pages,
                               stale, mem, alive>>) ]_vars

\* unbind has just returned false while a binding is referenced and read by
\* the installed program.
C12_Witness ==
    /\ ret = Returned("unbind", "false")
    /\ \E s \in DOMAIN m_variables :
            m_variables[s].referenced /\ m_variables[s].address \in ReadAddresses(code)

(***************************************************************************)
(* Properties of the parser.                                               *)
(***************************************************************************)
\* Stage 1 has ended: the text is accepted ("ok"), rejected with a parse
\* error ("error"), or ran into undefined behaviour ("ub").
Stage1Ended == lexer.kind \in {"ok", "error", "ub"}

\* The index in e of the k-th comma of CallText(name, args).
RECURSIVE CommaIndex(_, _, _)
CommaIndex(name, args, k) ==
    IF k = 0 THEN Len(name)
    ELSE CommaIndex(name, args, k - 1) + Len(args[k]) + 1

\* C13: a call name(arg, ..., arg) is accepted exactly when the number of
\* its arguments is the catalog arity of name; with an argument too many
\* the parse error is at the first comma past the arity, with too few at
\* the closing parenthesis; a comma outside any call or inside a plain
\* parenthesis is a parse error.
C13_ArityCheck ==
    Stage1Ended =>
        /\ \A name \in FunctionTexts, args \in ArgLists :
                (expression = CallText(name, args) \o <<" ">>) =>
                    IF Len(args) = function_map[Str(name)].num_args
                    THEN lexer.kind = "ok"
                    ELSE /\ lexer.kind = "error"
                         /\ lexer.position =
                                IF Len(args) > function_map[Str(name)].num_args
                                THEN CommaIndex(name, args, function_map[Str(name)].num_args)
                                ELSE Len(expression) - 2
        /\ \A t \in StrayCommaTexts :
                (expression = t \o <<" ">>) => (lexer.kind = "error")

\* A call with an argument too many has been rejected.
C13_Witness ==
    /\ lexer.kind = "error"
    /\ \E name \in FunctionTexts, args \in ArgLists :
            /\ expression = CallText(name, args) \o <<" ">>
            /\ Len(args) > function_map[Str(name)].num_args
            /\ args[1] # <<"1">>

\* The text has a ')' that closes nothing (depth, the number of brackets
\* open so far, is 0 when it is read) or a '(' that is never closed.
RECURSIVE Unbalanced(_, _)
Unbalanced(t, depth) ==
    IF t = <<>> THEN depth > 0
    ELSE IF Head(t) = "(" THEN Unbalanced(Tail(t), depth + 1)
    ELSE IF Head(t) = ")" THEN depth = 0 \/ Unbalanced(Tail(t), depth - 1)
    ELSE Unbalanced(Tail(t), depth)

\* C14: a text with a ')' that closes no open '(' or call, or with an
\* unclosed '(', is rejected with a parse error; while stage 1 runs bdarray
\* is never empty and function_parentheses is never negative.
C14_UnbalancedRejected ==
    /\ (lexer.kind = "run") => (lexer.bdarray # <<>> /\ lexer.function_parentheses >= 0)
    /\ (Stage1Ended /\ Unbalanced(expression, 0)) => (lexer.kind = "error")

\* The contents of the tokens, as strings.
Contents(tokens) == [k \in 1..Len(tokens) |-> Str(tokens[k].content)]

\* The contents of the postfix stream, without the "(" tokens that stage 2
\* passes on and stage 3 drops.
PostfixStream == SelectSeq(Contents(shunted.postfix), LAMBDA c : c # "(")

\* The tokens are operands, parentheses and binary operators only.
BinaryOnly(tokens) ==
    \A k \in 1..Len(tokens) :
        tokens[k].type \in {NUMERIC_LITERAL, CONSTANT_NAME, VARIABLE_NAME,
                            INFIX_1, INFIX_2, INFIX_3, INFIX_4,
                            LEFT_PARENTHESIS, RIGHT_PARENTHESIS}

\* How loosely a binary operator binds: ^ tightest, then * /, then + -,
\* then <.
Looseness(c) ==
    CASE c = "^" -> 1
      [] c \in {"*", "/"} -> 2
      [] c \in {"+", "-"} -> 3
      [] c = "<" -> 4

\* The number of parentheses open before position k of t.
RECURSIVE DepthAt(_, _)
DepthAt(t, k) ==
    IF k = 1 THEN 0
    ELSE DepthAt(t, k - 1) + (IF t[k - 1] = "(" THEN 1 ELSE IF t[k - 1] = ")" THEN -1 ELSE 0)

\* The positions of the binary operators of t outside every parenthesis.
OuterOperators(t) == {k \in 1..Len(t) : is_operator(t[k]) /\ DepthAt(t, k) = 0}

\* The operator at which t splits: among the outer operators that bind the
\* loosest, the first if it is ^ (right-associative), the last otherwise.
SplitAt(t) ==
    LET loosest == {k \in OuterOperators(t) :
                        \A j \in OuterOperators(t) : Looseness(t[j]) <= Looseness(t[k])}
    IN  CHOOSE k \in loosest :
            \A j \in loosest : IF t[k] = "^" THEN k <= j ELSE k >= j

\* The postfix form of the contents t of a binary-only token sequence,
\* grouped by precedence and associativity.
RECURSIVE Grouped(_)
Grouped(t) ==
    IF OuterOperators(t) # {}
    THEN Grouped(SubSeq(t, 1, SplitAt(t) - 1)) \o Grouped(SubSeq(t, SplitAt(t) + 1, Len(t)))
         \o <<t[SplitAt(t)]>>
    ELSE IF Len(t) >= 2 /\ t[1] = "(" THEN Grouped(SubSeq(t, 2, Len(t) - 1))
    ELSE t

\* C15: for every accepted text of operands, parentheses and binary
\* operators, stage 2 delivers the postfix form grouped with ^ tighter than
\* * / tighter than + - tighter than <, ^ right-associative and the others
\* left-associative.
C15_BinaryGrouping ==
    (lexer.kind = "ok" /\ BinaryOnly(lexer.tokens) /\ shunted # NotRun) =>
        /\ shunted.kind = "ok"
        /\ PostfixStream = Grouped(Contents(lexer.tokens))

\* Stage 2 has run on 1^2^3-4 and grouped it as (1^(2^3))-4.
C15_Witness ==
    /\ shunted.kind = "ok"
    /\ expression = <<"1", "^", "2", "^", "3", "-", "4", " ">>
    /\ PostfixStream = <<"1", "2", "3", "^", "^", "4", "-">>

\* The operand tokens.
IsOperand(tok) == tok.type \in {NUMERIC_LITERAL, CONSTANT_NAME, VARIABLE_NAME}

\* The token contents in text order, a sign and the operand right after it
\* taken as one primary ("-2").
RECURSIVE InfixPrimaries(_)
InfixPrimaries(tokens) ==
    IF tokens = <<>> THEN <<>>
    ELSE IF Len(tokens) >= 2 /\ tokens[1].type = UNARY /\ IsOperand(tokens[2])
    THEN <<Str(tokens[1].content) \o Str(tokens[2].content)>>
         \o InfixPrimaries(SubSeq(tokens, 3, Len(tokens)))
    ELSE <<Str(tokens[1].content)>> \o InfixPrimaries(Tail(tokens))

\* The same in the postfix stream, where the sign of a primary comes right
\* after its operand; a sign anywhere else is "sign".
RECURSIVE PostfixPrimaries(_)
PostfixPrimaries(tokens) ==
    IF tokens = <<>> THEN <<>>
    ELSE IF Len(tokens) >= 2 /\ IsOperand(tokens[1]) /\ tokens[2].type = UNARY
    THEN <<Str(tokens[2].content) \o Str(tokens[1].content)>>
         \o PostfixPrimaries(SubSeq(tokens, 3, Len(tokens)))
    ELSE <<IF tokens[1].type = UNARY THEN "sign" ELSE Str(tokens[1].content)>>
         \o PostfixPrimaries(Tail(tokens))

\* Operands joined by * / + -, where every sign follows one of these
\* operators and stands before an operand.
SignsAfterInfix(tokens) ==
    /\ \E k \in 1..Len(tokens) : tokens[k].type = UNARY
    /\ \A k \in 1..Len(tokens) :
        /\ tokens[k].type \in {NUMERIC_LITERAL, CONSTANT_NAME, VARIABLE_NAME,
                               INFIX_2, INFIX_3, UNARY}
        /\ tokens[k].type = UNARY =>
                /\ k > 1 /\ tokens[k - 1].type \in {INFIX_2, INFIX_3}
                /\ k < Len(tokens) /\ IsOperand(tokens[k + 1])

\* C16: in an accepted text of operands joined by * / + -, a sign after an
\* operator belongs to the operand right after it only, and the operators
\* group left to right as without the sign: a/-b/c is (a/(-b))/c.
C16_SignedLeftAssociative ==
    (shunted.kind = "ok" /\ SignsAfterInfix(lexer.tokens)) =>
        PostfixPrimaries(shunted.postfix) = Grouped(InfixPrimaries(lexer.tokens))

\* The priority stage 2 gave the sign read at position pos of the text.
SignPriority(pos) ==
    shunted.postfix[CHOOSE j \in 1..Len(shunted.postfix) :
                        shunted.postfix[j].type = UNARY /\ shunted.postfix[j].position = pos].priority

\* A sign, then operands joined by ^ * / only.
LeadingSign(tokens) ==
    /\ Len(tokens) >= 2
    /\ tokens[1].type = UNARY
    /\ \A k \in 2..Len(tokens) :
            tokens[k].type \in {NUMERIC_LITERAL, CONSTANT_NAME, VARIABLE_NAME, INFIX_1, INFIX_2}

\* C17: a sign right after ^ takes the priority of ^, so that a^-b is
\* a^(-b); a sign anywhere else takes the additive priority, so that a
\* leading sign applies to the whole power or product after it:
\* -1^0 = -1 and -1^1-1 = -2.
C17_UnaryTieBreak ==
    /\ (shunted.kind = "ok") =>
        /\ \A k \in 1..Len(lexer.tokens) :
                (lexer.tokens[k].type = UNARY) =>
                    SignPriority(lexer.tokens[k].position) =
                        IF k > 1 /\ lexer.tokens[k - 1].type = INFIX_1 THEN INFIX_1 ELSE INFIX_3
        /\ (/\ Len(lexer.tokens) = 4
            /\ IsOperand(lexer.tokens[1]) /\ lexer.tokens[2].type = INFIX_1
            /\ lexer.tokens[3].type = UNARY /\ IsOperand(lexer.tokens[4]))
           => (PostfixStream = <<Str(lexer.tokens[1].content), Str(lexer.tokens[4].content),
                                 Str(lexer.tokens[3].content), "^">>)
        /\ LeadingSign(lexer.tokens)
           => (PostfixStream = Grouped(Contents(Tail(lexer.tokens)))
                                \o <<Str(lexer.tokens[1].content)>>)
    /\ (program # NotRun /\ expression = <<"-", "1", "^", "0", " ">>)
        => (CurrentValue = Int2Q(-1))
    /\ (program # NotRun /\ expression = <<"-", "1", "^", "1", "-", "1", " ">>)
        => (CurrentValue = Int2Q(-2))

\* Stage 2 has run on 1^-2: the sign has the priority of ^ and applies to 2.
C17_Witness ==
    /\ shunted.kind = "ok"
    /\ expression = <<"1", "^", "-", "2", " ">>
    /\ SignPriority(2) = INFIX_1
    /\ PostfixStream = <<"1", "2", "-", "^">>

\* The text given to the followed call, and the same text without the
\* character at index pos.
GivenText == SubSeq(expression, 1, Len(expression) - 1)
Deleted(t, pos) == SubSeq(t, 1, pos) \o SubSeq(t, pos + 2, Len(t))

\* The unary tokens with content c, and the neg calls stage 3 makes.
SignTokens(c) == {k \in 1..Len(lexer.tokens) :
                    lexer.tokens[k].type = UNARY /\ lexer.tokens[k].content = <<c>>}
NegCalls(elist) == {k \in 1..Len(elist) : elist[k].element_type = "CFUNC" /\ elist[k].name = "neg"}

\* C18: when a unary '+' is deleted from an accepted text, the text is
\* accepted as well and is compiled to the same final list of nodes and the
\* same code; each unary '-' becomes exactly one call of neg.
C18_UnaryPlusNoOp ==
    (program # NotRun) =>
        /\ \A k \in SignTokens("+") :
                /\ Pipeline(Deleted(GivenText, lexer.tokens[k].position), m_variables, mem).kind = "ok"
                /\ Pipeline(Deleted(GivenText, lexer.tokens[k].position), m_variables, mem).elist
                        = program.elist
                /\ Pipeline(Deleted(GivenText, lexer.tokens[k].position), m_variables, mem).compiled
                        = program.compiled
        /\ Cardinality(NegCalls(Stage3(shunted.postfix, m_variables).elist))
                = Cardinality(SignTokens("-"))

\* digits ('.' digits?)? | '.' digits: digits and at most one dot, with at
\* least one digit.
LiteralShape(cs) ==
    /\ \A k \in 1..Len(cs) : is_numeric(cs[k]) \/ cs[k] = "."
    /\ Cardinality({k \in 1..Len(cs) : cs[k] = "."}) <= 1
    /\ \E k \in 1..Len(cs) : is_numeric(cs[k])

\* The length of the longest prefix of t made of digits and dots.
RECURSIVE LiteralRun(_)
LiteralRun(t) ==
    IF t # <<>> /\ (is_numeric(Head(t)) \/ Head(t) = ".") THEN 1 + LiteralRun(Tail(t)) ELSE 0

\* The text begins with digits and dots that are no literal (no digit, or
\* two dots), or with a literal directly followed by a letter or '('.
BadLiteralStart(t) ==
    /\ LiteralRun(t) > 0
    /\ \/ ~LiteralShape(SubSeq(t, 1, LiteralRun(t)))
       \/ is_alphabetic(t[LiteralRun(t) + 1])
       \/ t[LiteralRun(t) + 1] = "("

\* C19: every numeric literal token stage 1 emits has the shape
\* digits ('.' digits?)? | '.' digits; a text that begins with a lone '.',
\* with a literal of two dots, or with a literal directly followed by a
\* letter or '(' is rejected with a parse error.
C19_LiteralShape ==
    /\ (lexer.kind \in {"run", "ok"}) =>
            \A k \in 1..Len(lexer.tokens) :
                (lexer.tokens[k].type = NUMERIC_LITERAL) => LiteralShape(lexer.tokens[k].content)
    /\ (Stage1Ended /\ BadLiteralStart(expression)) => (lexer.kind = "error")

\* The type and content of each token, without its position.
TokenSequence(tokens) == [k \in 1..Len(tokens) |-> <<tokens[k].type, tokens[k].content>>]

\* C20: an accepted text with spaces inserted between its tokens, before
\* the first or after the last of them is accepted with the same sequence
\* of tokens.
C20_WhitespaceInsignificant ==
    Stage1Ended =>
        \A base \in SpacedBases : \A f \in Insertions(base) :
            (expression = Spaced(base, f) \o <<" ">>) =>
                /\ lexer.kind = "ok"
                /\ TokenSequence(lexer.tokens) =
                        TokenSequence(Stage1(Spaced(base, [g \in 1..(Len(base) + 1) |-> 0]),
                                             DOMAIN m_variables, DOMAIN NamedConstants).tokens)

\* C21: with the variable bound, the text made of its name and '^' is
\* rejected with a parse error whose position is 3.
C21_EndAfterOperator ==
    (Stage1Ended /\ GivenText = <<"x", "^">>) =>
        (lexer.kind = "error" /\ lexer.position = 3)


\* C22: with x, y and z bound as in the usage example of the header, the
\* example's text is accepted, its call of log with two arguments included.
C22_HeaderExample ==
    (Stage1Ended /\ GivenText = HeaderExample) => (lexer.kind = "ok")

\* The extra registers a function's code uses, as its Function declares.
StackReq(c) == IF c.t = "catalog" THEN function_map[c.name].stack_req ELSE 0

\* The x87 registers in use after the first k pieces of the code, and the
\* most that are in use while piece k runs.
RECURSIVE StackAfter(_, _)
StackAfter(c, k) ==
    IF k = 0 THEN 0
    ELSE CASE c[k].t = "load" -> StackAfter(c, k - 1) + 1
           [] c[k].t = "call" -> StackAfter(c, k - 1) - (c[k].num_args - 1)
           [] OTHER -> StackAfter(c, k - 1)

StackDemand(c, k) ==
    IF c[k].t = "call" THEN StackAfter(c, k - 1) + StackReq(c[k].code) ELSE StackAfter(c, k)

\* C23: the installed program never needs more than the 8 registers of
\* the x87 stack at any point; a text whose program would need more is not
\* installed.
C23_FpuStackBound ==
    (evaluate # 0) => \A k \in 1..Len(code) : StackDemand(code, k) <= FpuRegisters

\* The text has the one-letter identifier c.
Mentions(e, c) ==
    \E k \in 1..Len(e) :
        /\ e[k] = c
        /\ (k = 1 \/ ~is_alphabetic(e[k - 1]))
        /\ (k = Len(e) \/ ~is_alphabetic(e[k + 1]))

\* C24: names are resolved against the bindings of the moment of the call:
\* a successful unbind removes the binding, only bind adds one, an
\* assign_expression whose text mentions a name that is not bound (and is
\* no named constant or operation) throws, and bind of a name that is not
\* bound and is no operation succeeds and binds it.
C24_ResolvedAtAssign ==
    [][ /\ \A s \in UnbindNames :
              (ret' = Returned("unbind", "true") /\ Unbind(s))
              => (s \notin DOMAIN m_variables')
        /\ (DOMAIN m_variables' \ DOMAIN m_variables # {}) => (ret'.op = "bind")
        /\ \A e \in Texts :
              (/\ Mentions(e, "x")
               /\ "x" \notin DOMAIN m_variables
               /\ ret'.op = "assign_expression"
               /\ (AssignExpression(e) \/ AssignExpressionUndefined(e)))
              => (ret'.result = "throw")
        /\ \A b \in BindCalls :
              (/\ b[2] \notin DOMAIN m_variables \cup FunctionNames
               /\ ret'.op = "bind"
               /\ Bind(b[1], b[2]))
              => (ret'.result = "true" /\ b[2] \in DOMAIN m_variables') ]_vars

\* assign_expression has just thrown while x is not bound, after x was
\* bound, read by a program (the second mapping) and unbound: the third
\* mapping is the program of "0", whose literal the throwing call destroyed.
C24_Witness ==
    /\ ret = Returned("assign_expression", "throw")
    /\ "x" \notin DOMAIN m_variables
    /\ evaluate = 3
    /\ LiteralAddress("0") \in DOMAIN stale
    /\ pages[2].size # pages[3].size

\* The last ULP bin of the accuracy report.
UlpBudget == 65536

\* - * and / of the signed texts, and the value of SignedText(ops, signs)
\* as the native expression has it: each sign belongs to the operand after
\* it, * and / group left to right and bind tighter than the binary -.
\* `sum` is the value of the terms before the current one, `term` the
\* current product or quotient, k the operands taken so far.
RECURSIVE Reference(_, _, _, _, _)
Reference(ops, signs, k, sum, term) ==
    IF k > Len(signs) THEN CatalogApply("add", <<sum, term>>)
    ELSE LET v == Int2Q(IF signs[k] = <<"-">> THEN -k ELSE k)
         IN  IF k = 1 THEN Reference(ops, signs, 2, Zero, v)
             ELSE IF ops[k - 1] = "-"
             THEN Reference(ops, signs, k + 1, CatalogApply("add", <<sum, term>>),
                            CatalogApply("neg", <<v>>))
             ELSE Reference(ops, signs, k + 1, sum,
                            CatalogApply(operator_to_function_name(ops[k - 1]), <<term, v>>))

\* a is a number no further from the reference b than |b| / UlpBudget; two
\* doubles at most UlpBudget ULP apart are much closer than that.
WithinBudget(a, b) ==
    /\ IsQ(a)
    /\ Abs(CatalogApply("sub", <<a, b>>).n) * b.d * UlpBudget
            <= Abs(b.n) * CatalogApply("sub", <<a, b>>).d

\* C25: what evaluate() returns for a compiled text is within 65536 ULP of
\* the reference value of the text; here for operands joined by - * and /,
\* each unsigned or signed, whose values are computed without rounding.
C25_Accuracy ==
    (program.kind = "ok" /\ evaluate # 0) =>
        \A n \in 0..MaxSignedOperators :
            \A ops \in [1..n -> {"-", "*", "/"}], signs \in [1..(n + 1) -> Signs] :
                (GivenText = SignedText(ops, signs)) =>
                    WithinBudget(CurrentValue, Reference(ops, signs, 1, Zero, Zero))

\* The buffer of the running compile_elist holds the whole code, the
\* address of m_x64_return_var patched into its return sequence.
Written == emit.bytes = emit.compiled[emit.j]

\* C26: in every compilation the code is copied and the scratch address
\* patched while the buffer is still writable, the buffer is sealed only
\* when all of it is written, nothing is written to it afterwards, and
\* evaluate is assigned a buffer only after that buffer was sealed.
C26_WriteSealPublish ==
    [][ /\ (emit.kind = "run" /\ emit'.kind = "run" /\ emit'.bytes # emit.bytes
                /\ emit'.buffer = emit.buffer)
            => (/\ pages[emit.buffer].prot = "PROT_READ|PROT_WRITE"
                /\ pages'[emit.buffer].prot = "PROT_READ|PROT_WRITE")
        /\ \A b \in DOMAIN pages :
              (pages[b].prot # "PROT_EXEC" /\ pages'[b].prot = "PROT_EXEC")
              => (emit.kind = "run" /\ b = emit.buffer /\ Written)
        /\ (evaluate' # evaluate)
            => (/\ emit.kind = "run"
                /\ evaluate' = emit.buffer
                /\ pages[evaluate'].prot = "PROT_EXEC"
                /\ Written
                /\ code' = emit.compiled[emit.j]) ]_vars

\* The final compilation of a call with two sub-compilations has been
\* sealed and its buffer is about to be assigned to evaluate.
C26_Witness ==
    /\ emit.kind = "run"
    /\ emit.pc = "assign"
    /\ emit.j = 3
    /\ pages[emit.buffer].prot = "PROT_EXEC"
    /\ evaluate # emit.buffer

\* C27: during one call of assign_expression evaluate is assigned once,
\* by the final compilation; the sub-compilations of the precompute loop
\* leave it alone.
C27_SinglePublication ==
    [][ (evaluate' # evaluate)
        => (emit.kind = "run" /\ emit.j = Len(emit.compiled)) ]_vars

(***************************************************************************)
(* Properties of the optimizers.                                           *)
(***************************************************************************)
\* The list after stage 3 and the linking, before any optimizer ran, and
\* its last node (in left op right, the call of op).
Linked == Link(Stage3(shunted.postfix, m_variables).elist).elist
TopCall(elist) == elist[Len(elist)]

IsLeaf(el) == el.element_type \in {"CCONST", "CVAR"}

\* r is f with one of its leaf operands folded: a one-argument function
\* whose code is `mov rax, address` (10 bytes) and the arithmetic
\* instruction (2 bytes) on an operand of the leaf's address and type, the
\* leaf gone from the list.
FoldsLeaf(f, elist, r) ==
    \E a \in 1..2 :
        /\ IsLeaf(Deref(elist, f.args[a]))
        /\ r.f.num_args = 1
        /\ r.f.code.t = "memop"
        /\ r.f.code.address = Deref(elist, f.args[a]).address
        /\ r.f.code.numeric_data_type = Deref(elist, f.args[a]).numeric_data_type
        /\ r.f.code_size = 12
        /\ r.elist = Erase(elist, f.args[a])

\* a and b are the same value: equal, or the same sum or product with its
\* two operands exchanged.
SameValue(a, b) ==
    \/ a = b
    \/ /\ ~IsQ(a) /\ ~IsQ(b)
       /\ a.f = b.f
       /\ a.f \in {"add", "mul"}
       /\ a.a = <<b.a[2], b.a[1]>>

\* The function's code is part of a compilation of the call.
Compiled(f) ==
    \E c \in 1..Len(program.compiled) : \E k \in 1..Len(program.compiled[c]) :
        /\ program.compiled[c][k].t = "call"
        /\ program.compiled[c][k].code = f.code

\* C28: for add, sub, mul and div with an operand that is a leaf (literal,
\* named constant, or variable of any of the five types), the optimizer
\* makes a one-argument function with the arithmetic instruction on that
\* operand's address and type and removes the leaf, and the program
\* computes what the two-operand call computes.
C28_FoldingCoversLeaves ==
    (/\ program.kind = "ok"
     /\ GivenText \in BinaryTexts
     /\ \E a \in 1..2 : IsLeaf(Deref(Linked, TopCall(Linked).args[a])))
    => (/\ FoldsLeaf(TopCall(Linked), Linked, asmd_optimizer(TopCall(Linked), Linked))
        /\ Compiled(asmd_optimizer(TopCall(Linked), Linked).f)
        /\ SameValue(CurrentValue, Execute(CompileCode(Linked), CurrentHeap)))

\* sub and div, and the code's two opcode variants for each: st(0) op m
\* (fsub, fdiv) and m op st(0) (fsubr, fdivr).
NonCommutativeTexts ==
    {l \o <<op>> \o r : l \in OperandTexts, op \in {"-", "/"}, r \in OperandTexts}

Forward(name) == asmd_opcodes[name][1]
Reversed(name) == asmd_opcodes[name][2]

\* r folds the operand v of f with the opcode variant `opcode` and keeps
\* the operand `other` as the one argument.
FoldsWith(r, v, other, opcode) ==
    /\ r.f.code.t = "memop"
    /\ r.f.code.address = v.address
    /\ r.f.code.opcode = opcode
    /\ r.f.args = <<other.id>>

\* In left op right after the linking, args[1] is the right operand and
\* args[2] the left one.
RightOperand(elist) == Deref(elist, TopCall(elist).args[1])
LeftOperand(elist) == Deref(elist, TopCall(elist).args[2])

\* C29: for sub and div, a right operand that is a leaf is folded with the
\* forward variant (left op mem), also when the left one is a leaf too; a
\* left operand that is a leaf, the right one being none, is folded with the
\* reversed variant (mem op right); either way the program computes
\* left op right.
C29_OperandOrder ==
    (program.kind = "ok" /\ GivenText \in NonCommutativeTexts) =>
        /\ IsLeaf(RightOperand(Linked))
            => FoldsWith(asmd_optimizer(TopCall(Linked), Linked), RightOperand(Linked),
                         LeftOperand(Linked), Forward(TopCall(Linked).name))
        /\ (IsLeaf(LeftOperand(Linked)) /\ ~IsLeaf(RightOperand(Linked)))
            => FoldsWith(asmd_optimizer(TopCall(Linked), Linked), LeftOperand(Linked),
                         RightOperand(Linked), Reversed(TopCall(Linked).name))
        /\ CurrentValue = Execute(CompileCode(Linked), CurrentHeap)

\* The exponents the claim names.
SpecializedExponents == {0, 1, 2, 3, 4, 5, 6, 7, 8, 16, 32}

\* r replaces the pow call f by a one-argument multiply chain for the
\* exponent n on the base, the exponent's leaf gone from the list.
Specializes(r, f, elist, n) ==
    /\ r.f.num_args = 1
    /\ r.f.code = [t |-> "powchain", n |-> n]
    /\ r.f.args = <<f.args[2]>>
    /\ r.elist = Erase(elist, f.args[1])

\* C30: the call of pow in base ^ exponent is replaced by a one-argument
\* multiply chain, and the exponent's leaf removed, exactly when the
\* exponent is a constant leaf with one of the values 0..8, 16, 32; in
\* every other case pow_optimizer returns the call and the list as they
\* are, and the generic pow is compiled.
C30_PowSpecialization ==
    (program.kind = "ok" /\ GivenText \in PowerTexts) =>
        IF /\ RightOperand(Linked).element_type = "CCONST"
           /\ CurrentHeap[RightOperand(Linked).address] \in {Int2Q(n) : n \in SpecializedExponents}
        THEN /\ Specializes(pow_optimizer(TopCall(Linked), Linked, CurrentHeap),
                            TopCall(Linked), Linked,
                            CurrentHeap[RightOperand(Linked).address].n)
             /\ Compiled(pow_optimizer(TopCall(Linked), Linked, CurrentHeap).f)
             /\ ~Compiled(TopCall(Linked))
        ELSE /\ pow_optimizer(TopCall(Linked), Linked, CurrentHeap)
                    = [f |-> TopCall(Linked), elist |-> Linked]
             /\ Compiled(TopCall(Linked))

\* d^16 has been compiled to the load of d and the chain of four fmul.
C30_Witness ==
    /\ program.kind = "ok"
    /\ GivenText = <<"d", "^", "1", "6">>
    /\ Len(program.elist) = 2
    /\ program.elist[2].code = [t |-> "powchain", n |-> 16]
    /\ program.elist[2].code_size = 8

(***************************************************************************)
(* Properties of the final list of nodes.                                  *)
(***************************************************************************)
\* The roots of the operands on the work stack after the first k nodes of
\* the list (indexes into the list, the top last).
RECURSIVE Roots(_, _)
Roots(elist, k) ==
    IF k = 0 THEN <<>>
    ELSE IF elist[k].element_type = "CFUNC"
    THEN SubSeq(Roots(elist, k - 1), 1, Len(Roots(elist, k - 1)) - elist[k].num_args) \o <<k>>
    ELSE Roots(elist, k - 1) \o <<k>>

\* The operands of the call at index k.
OperandsOf(elist, k) ==
    {Roots(elist, k - 1)[j] :
        j \in (Len(Roots(elist, k - 1)) - elist[k].num_args + 1)..Len(Roots(elist, k - 1))}

\* The call's code embeds the address of a variable.
EmbedsVariable(el) == el.code.t = "memop" /\ el.code.address[1] = "var"

\* C31: the final list has no call all of whose operands are constant
\* leaves, unless the call's code embeds the address of a variable; a text
\* that names no variable is compiled to the load of one constant.
C31_FoldingComplete ==
    (program.kind = "ok") =>
        /\ \A k \in 1..Len(program.elist) :
              (/\ program.elist[k].element_type = "CFUNC"
               /\ \A o \in OperandsOf(program.elist, k) :
                        program.elist[o].element_type = "CCONST")
              => EmbedsVariable(program.elist[k])
        /\ (\A t \in 1..Len(lexer.tokens) : lexer.tokens[t].type # VARIABLE_NAME)
            => (/\ Len(program.elist) = 1
                /\ program.elist[1].element_type = "CCONST"
                /\ Len(code) = 3
                /\ code[2].t = "load")

\* A text without variables has been folded in two steps, the second on the
\* constant the first made.
C31_Witness ==
    /\ program.kind = "ok"
    /\ Len(program.ics) = 2
    /\ Len(program.elist) = 1
    /\ program.elist[1].address = IntermediateAddress(2)
    /\ \E k \in 1..Len(program.compiled[2]) :
            /\ program.compiled[2][k].t = "load"
            /\ program.compiled[2][k].address = IntermediateAddress(1)

\* ---------------------------------------------------------------------
\* C32: unary recognition.  In an accepted token sequence a `+` or `-`
\* is a UNARY token only when it is the first token or the token before
\* it is an opening bracket, a comma or an infix operator; everywhere
\* else it is an infix token.
InfixTypes == {INFIX_1, INFIX_2, INFIX_3, INFIX_4}

OpensOperand(tok) ==
    tok.type \in {LEFT_PARENTHESIS, FUNCTION_LEFT_PARENTHESIS, COMMA} \cup InfixTypes

C32_UnaryRecognition ==
    (lexer.kind = "ok") =>
        \A t \in 1..Len(lexer.tokens) :
            (lexer.tokens[t].content \in {<<"+">>, <<"-">>}) =>
                IF t = 1 \/ OpensOperand(lexer.tokens[t - 1])
                THEN lexer.tokens[t].type = UNARY
                ELSE lexer.tokens[t].type \in InfixTypes

\* ---------------------------------------------------------------------
\* C33: concurrent evaluate() and the scratch slot.  A call of evaluate()
\* returns a value other than the one its own code computed only when the
\* threads share one evaluator; with one evaluator per thread every call
\* returns the value it computed.  With a shared evaluator there is an
\* interleaving in which a call returns the value the other call computed
\* (C33_Witness).
C33_ScratchIsolation ==
    \A t \in Threads :
        (/\ calls.th[t].pc = "returned"
         /\ calls.th[t].xmm0 # calls.th[t].st0)
        => (calls.sharing = "shared")

C33_Witness ==
    \E t \in Threads : \E u \in Threads \ {t} :
        /\ calls.sharing = "shared"
        /\ calls.th[t].pc = "returned"
        /\ calls.th[u].pc = "stored"
        /\ calls.th[t].xmm0 # calls.th[t].st0
        /\ calls.th[t].xmm0 = calls.th[u].st0

\* ---------------------------------------------------------------------
\* C34: installed code reads only live storage.  Between the calls of
\* the evaluator's members, every operand address embedded in the
\* installed program is the address of a named constant, of a Constant
\* held by m_literals or m_intermediate_constants, or of a variable
\* that is bound.
BoundAddresses == {m_variables[s].address : s \in DOMAIN m_variables}

HeldAddresses ==
    {NamedConstantAddress(n) : n \in DOMAIN NamedConstants}
    \cup {LiteralAddress(t) : t \in DOMAIN m_literals}
    \cup {IntermediateAddress(k) : k \in 1..Len(m_intermediate_constants)}

C34_LiveStorage ==
    (alive = "alive" /\ evaluate # 0) =>
        EmbeddedAddresses(code) \subseteq (HeldAddresses \cup BoundAddresses)

\* ---------------------------------------------------------------------
\* C35: internal stack discipline.  For every token sequence stage 1
\* accepts, stage 2 ends without reading or popping an empty tstack and
\* without reaching its `internal error` branch, the linking never pops
\* an empty evec, and at its end evec holds exactly one root.
LinkOutcome == Link(Stage3(shunted.postfix, m_variables).elist)

C35_StackDiscipline ==
    /\ (lexer.kind = "ok" /\ shunted # NotRun) => (shunted.kind = "ok")
    /\ (shunted.kind = "ok") => (LinkOutcome.kind = "ok" /\ Len(LinkOutcome.evec) = 1)

C35_Witness ==
    /\ shunted.kind = "ok"
    /\ \E k \in 1..Len(lexer.tokens) : lexer.tokens[k].type = COMMA
    /\ \E k \in 1..Len(lexer.tokens) : lexer.tokens[k].type = RIGHT_PARENTHESIS
    /\ \E k \in 1..Len(LinkOutcome.elist) :
          /\ LinkOutcome.elist[k].element_type = "CFUNC"
          /\ LinkOutcome.elist[k].num_args = 2
    /\ Len(LinkOutcome.evec) = 1

\* ---------------------------------------------------------------------
\* C36: stack balance of the emitted program.  Walking the final node
\* list of an accepted expression with +1 for a leaf and -(num_args - 1)
\* for a call, every call finds at least num_args values and the walk
\* ends at depth 1; this holds of the list the optimizers and the
\* folding leave, and of the pieces of every compilation made from it.
RECURSIVE Depth(_, _)
Depth(elist, k) ==
    IF k = 0 THEN 0
    ELSE IF elist[k].element_type = "CFUNC"
    THEN Depth(elist, k - 1) - (elist[k].num_args - 1)
    ELSE Depth(elist, k - 1) + 1

Balanced(elist) ==
    /\ \A k \in 1..Len(elist) :
          (elist[k].element_type = "CFUNC") => (Depth(elist, k - 1) >= elist[k].num_args)
    /\ Depth(elist, Len(elist)) = 1

BalancedCode(c) ==
    /\ \A k \in 1..Len(c) : (c[k].t = "call") => (StackAfter(c, k - 1) >= c[k].num_args)
    /\ StackAfter(c, Len(c)) = 1

C36_StackBalance ==
    (program.kind = "ok") =>
        /\ Balanced(program.elist)
        /\ \A j \in 1..Len(program.compiled) : BalancedCode(program.compiled[j])

\* A list from which the optimizers removed a folded leaf, leaving a call
\* of one argument where the text has an operator of two.
C36_Witness ==
    /\ program.kind = "ok"
    /\ Len(program.elist) >= 2
    /\ Len(program.elist) < Len(Linked)
    /\ \E k \in 1..Len(program.elist) :
          /\ program.elist[k].element_type = "CFUNC"
          /\ program.elist[k].code.t = "memop"
          /\ program.elist[k].num_args = 1

\* ---------------------------------------------------------------------
\* C37: unbind of a binding the installed program does not read returns
\* true, removes that binding and nothing else, and compiles nothing: the
\* function pointer, the installed bytes, the mappings and the other
\* bindings with their referenced flags stay as they are.
C37_UnbindUnreferenced ==
    [][ \A s \in UnbindNames :
            (/\ s \in DOMAIN m_variables
             /\ m_variables[s].address \notin ReadAddresses(code)
             /\ ret'.op = "unbind"
             /\ Unbind(s))
            => (/\ ret'.result = "true"
                /\ m_variables' = [t \in DOMAIN m_variables \ {s} |-> m_variables[t]]
                /\ UNCHANGED <<evaluate, code, pages, m_literals,
                               m_intermediate_constants>>) ]_vars

\* ---------------------------------------------------------------------
\* C38: the empty expression.  assign_expression("") returns true and
\* installs the constant 0: evaluate() then returns 0.0 and the
\* referenced flag of every binding is false.  A text of spaces only is
\* rejected with a parse error.
C38_EmptyExpression ==
    [][ /\ (ret'.op = "assign_expression" /\ AssignExpression(<<>>))
            => (/\ ret'.result = "true"
                /\ evaluate' # 0
                /\ NextValue = Zero
                /\ DOMAIN m_variables' = DOMAIN m_variables
                /\ \A s \in DOMAIN m_variables' : ~m_variables'[s].referenced)
        /\ \A n \in 1..MaxSpaces :
              assign_expression(State, Spaces(n), NoDenial).status = "throw" ]_vars

\* assign_expression("") has returned after a program that reads x.
C38_Witness ==
    /\ ret = Returned("assign_expression", "true")
    /\ "x" \in DOMAIN m_variables
    /\ ~m_variables["x"].referenced
    /\ evaluate = 3
    /\ ReadAddresses(code) = {LiteralAddress("0")}
    /\ CurrentValue = Zero

====
